---- MODULE Spec2Model ----
(***************************************************************************)
(* Verification model of the identity-management backend:                  *)
(*   - password policy        (backend/schema.py, password_service.py)     *)
(*   - authentication service (backend/services/auth_service.py)           *)
(*   - authentication routes  (backend/routes/auth_routes.py)              *)
(*   - user service / admin user creation (backend/routes.py)              *)
(*                                                                         *)
(* Conventions.  An Optional[T] value is a set: None is {} and a present   *)
(* value x is {x}.  A Python str is a sequence of one-character strings,   *)
(* so the empty string is << >>.  A bcrypt hash is the pair of the         *)
(* plaintext it was made from and the salt drawn for it.  Time is counted  *)
(* in hours.  Each request handler runs without an await between its       *)
(* database reads and its commit, so one handler is one action.            *)
(***************************************************************************)
EXTENDS Integers, Sequences, FiniteSets, TLC

VARIABLES
    users,        \* the users table: id -> row, for the ids that exist
    nextUserId,   \* the next AUTO_INCREMENT value of users.id
    now,          \* the database/server clock, in hours
    nextToken,    \* number of reset tokens drawn from secrets.token_urlsafe
    issued,       \* bearer tokens handed out by create_token
    req,          \* the request the last handler served
    resp,         \* the response it produced
    replaced,     \* per user id: the hashes successfully replaced, oldest first
    candidate,    \* a password submitted to validate_password_strength
    verdict,      \* and what the validator answered for it
    profiles,     \* the user_profiles table: user_id -> row, where one exists
    addresses,    \* the user_addresses table: a set of rows
    nextAddressId, \* the next AUTO_INCREMENT value of user_addresses.id
    clock,        \* the tracker's clock (datetime.now(UTC)), in half minutes
    rate_limits,  \* EnhancedConnectionTracker.rate_limits: key -> RateLimitInfo
    rate_limit,   \* the limit handed to check_rate_limit
    rl_call,      \* the last check_rate_limit call: key, result, time, denials before it
    rl_log,       \* per key: when it was last allowed, and the denials since
    active_connections, \* EnhancedConnectionTracker.active_connections
    endpoint_stats,     \* EnhancedConnectionTracker.endpoint_stats
    ip_stats,           \* EnhancedConnectionTracker.ip_stats
    lock,         \* who holds EnhancedConnectionTracker._lock
    reaper,       \* where the cleanup task stands
    conn,         \* per request in the middleware: where it stands
    user_middleware, \* app.user_middleware: the installed layers, outermost first
    hop,          \* the request travelling through the layers
    served,       \* number of requests that have left the outermost layer
    app_state_db, \* request.app.state.db
    sessions,     \* the sessions SessionLocal() has opened and nobody closed
    nextSession,  \* number of sessions opened so far
    bound,        \* per request inside DatabaseMiddleware.dispatch: its local db
    database_exists, \* the MySQL database is there
    tables_exist, \* and so are its tables
    is_new_database, \* database.is_new_database, once the module is imported
    db_init,      \* the rows of the db_init table
    init_outcome, \* how the last run of init_db ended
    init_runs,    \* number of runs of init_db so far
    lifespan,     \* position of main.lifespan
    _cleanup_task, \* connection_tracker._cleanup_task
    monitoring_task, \* the task running performance_monitor.start_monitoring
    cancel_requested, \* monitoring_task.cancel() was called and not yet delivered
    is_running,   \* performance_monitor.is_running
    elapsed,      \* time.time() - performance_monitor._last_error_time, in seconds
    _error_count, \* performance_monitor._error_count
    _db_error_count, \* performance_monitor._db_error_count
    logged,       \* errors logged for failed ticks since the counters were reset, by kind
    last_tick,    \* how the monitor's last tick ended
    wrote_after_end \* the monitor stored a row after the lifespan had ended

authVars == <<users, nextUserId, now, nextToken, issued, req, resp, replaced>>
pwVars == <<candidate, verdict>>
profileVars == <<profiles, addresses, nextAddressId>>

limiterVars == <<clock, rate_limits, rate_limit, rl_call, rl_log>>
connectionVars == <<active_connections, endpoint_stats, ip_stats, lock, reaper>>
trackerVars == <<limiterVars, connectionVars, conn>>

layerVars == <<user_middleware, hop, served>>
sessionVars == <<app_state_db, sessions, nextSession, bound>>
initVars == <<database_exists, tables_exist, is_new_database, db_init, init_outcome, init_runs>>
monitorVars == <<lifespan, _cleanup_task, monitoring_task, cancel_requested, is_running, elapsed,
                 _error_count, _db_error_count, logged, last_tick, wrote_after_end>>
appVars == <<layerVars, sessionVars, initVars, monitorVars>>

restVars == <<profileVars, trackerVars, appVars>>

vars == <<authVars, pwVars, restVars>>

----------------------------------------------------------------------------
(* Bounds of the model *)

MaxUsers == 2
MaxTime == 2
MaxTokens == 2
MaxUpdates == 2
MaxHistoryUpdates == 6
MaxFill == 17
MaxAddresses == 2
MaxClock == 4
MaxDenials == 2
MaxUptime == 11
MaxOpen == 3
MaxBurst == 2
MaxServed == 3
MaxSessions == 5
MaxRuns == 6
MaxAccounts == 3

(* Program constants *)

MIN_PASSWORD_LENGTH == 16
HISTORY_SIZE == 5
RESET_TOKEN_HOURS == 1
WELCOME_TOKEN_HOURS == 24

\* check_rate_limit's defaults: 100 requests per 60 seconds (two half minutes)
DEFAULT_LIMIT == 100
DEFAULT_WINDOW == 2

\* the cleanup task sleeps 60 seconds and reaps what is older than 5 minutes
CLEANUP_SLEEP == 2
STALE_AGE == 10

----------------------------------------------------------------------------
(* Optional values and Python truthiness *)

None == {}
Some(x) == {x}
The(o) == CHOOSE x \in o : TRUE

\* bool(s) for an Optional[str] held as a character sequence: None and "" are falsy
TruthyStr(o) == o # None /\ The(o) # << >>

\* bool(s) for an Optional[str] held as an atomic string (tokens, emails)
TruthyText(o) == o # None /\ The(o) # ""

\* bool(n) for an Optional[int]: None and 0 are falsy
TruthyInt(o) == o # None /\ The(o) # 0

Repeat(c, n) == [i \in 1..n |-> c]

----------------------------------------------------------------------------
(* Characters *)

AsciiUpper == {"A", "B"}
AsciiLower == {"a", "b"}
AsciiDigit == {"1"}
Punctuation == {"!"}
OtherChars == {" "}
Alphabet == AsciiUpper \cup AsciiLower \cup AsciiDigit \cup Punctuation \cup OtherChars

\* re.search(r'[..]', password): some character of the string is in the class
ReSearch(class, s) == \E i \in DOMAIN s : s[i] \in class

----------------------------------------------------------------------------
(* schema.py: password-strength validation *)

MsgLength == "Password must be at least 16 characters long."
MsgUpper == "Password must contain at least one uppercase letter."
MsgLower == "Password must contain at least one lowercase letter."
MsgDigit == "Password must contain at least one number."
MsgSpecial == "Password must contain at least one special character."

\* the (condition, message) list of validate_password_strength, in its order
Validations(password) ==
    << [cond |-> Len(password) < MIN_PASSWORD_LENGTH, msg |-> MsgLength],
       [cond |-> ~ReSearch(AsciiUpper, password), msg |-> MsgUpper],
       [cond |-> ~ReSearch(AsciiLower, password), msg |-> MsgLower],
       [cond |-> ~ReSearch(AsciiDigit, password), msg |-> MsgDigit],
       [cond |-> ~ReSearch(Punctuation, password), msg |-> MsgSpecial] >>

ConditionHolds(v) == v.cond

\* a variant that stops at the first violated rule
validate_password_strength_first_only(password) ==
    LET failed == SelectSeq(Validations(password), ConditionHolds)
        errors == IF failed = << >> THEN << >>
                  ELSE << [field |-> "password", msg |-> failed[1].msg] >>
    IN  [raised |-> errors # << >>, status_code |-> 422, detail |-> errors]

\* raises HTTPException(422, detail=errors) when any rule is violated,
\* otherwise returns the password
validate_password_strength(password) ==
    LET failed == SelectSeq(Validations(password), ConditionHolds)
        errors == [i \in 1..Len(failed) |-> [field |-> "password", msg |-> failed[i].msg]]
    IN  [raised |-> errors # << >>, status_code |-> 422, detail |-> errors]

----------------------------------------------------------------------------
(* services/password_service.py *)

\* bcrypt.hashpw(password, salt): the hash embeds the salt it was made with
hash_password(password, salt) == [pw |-> password, salt |-> salt]

\* bcrypt.checkpw: re-hash the plaintext under the hash's salt and compare
verify_password(plain_password, hashed_password) ==
    hash_password(plain_password, hashed_password.salt) = hashed_password

check_password_history(new_password, password_history) ==
    IF password_history = << >>
    THEN TRUE
    ELSE ~\E i \in DOMAIN password_history :
              verify_password(new_password, password_history[i])

\* new_history[-n:]
LastN(s, n) == IF Len(s) <= n THEN s ELSE SubSeq(s, Len(s) - n + 1, Len(s))

\* a variant that keeps one entry too many
update_password_history_keep_six(current_hash, history) ==
    LastN(history \o <<current_hash>>, HISTORY_SIZE + 1)

update_password_history(current_hash, history) ==
    LET new_history == history \o <<current_hash>>
    IN  LastN(new_history, HISTORY_SIZE)

----------------------------------------------------------------------------
(* models: the User row and the enumerations *)

ACTIVE == "ACTIVE"
INACTIVE == "INACTIVE"
PENDING == "PENDING"
UserStatus == {ACTIVE, INACTIVE, PENDING}

\* the values of the UserRole enumeration
UserRoleValues == {"ADMIN", "MODERATOR", "USER"}

\* str.upper() on the role spellings that occur
UpperCase(r) ==
    CASE r = "admin" -> "ADMIN"
      [] r = "moderator" -> "MODERATOR"
      [] r = "user" -> "USER"
      [] r = "root" -> "ROOT"
      [] OTHER -> r

UserNames == {"admin", "bob"}
Emails == {"admin@example.com", "bob@example.com"}
EmailOf(name) == IF name = "admin" THEN "admin@example.com" ELSE "bob@example.com"

Row(id, user_name, email, hashed_password, status, roles, reset_token, reset_token_expiry) ==
    [id |-> id, user_name |-> user_name, email |-> email,
     hashed_password |-> hashed_password, status |-> status, roles |-> roles,
     last_login |-> None,
     reset_token |-> reset_token, reset_token_expiry |-> reset_token_expiry,
     last_passwords |-> << >>]

----------------------------------------------------------------------------
(* UserService (routes.py) *)

\* .filter(column == value).first(): the id of the first matching row, or None
First(ids) == IF ids = {} THEN None
              ELSE Some(CHOOSE i \in ids : \A j \in ids : i <= j)

get_user_by_id(user_id) ==
    First({i \in DOMAIN users : users[i].id = user_id})

get_user_by_email(email) ==
    First({i \in DOMAIN users : users[i].email = email})

get_user_by_username(username) ==
    First({i \in DOMAIN users : users[i].user_name = username})

get_user_by_reset_token(token) ==
    First({i \in DOMAIN users : users[i].reset_token = Some(token)})

\* update_data maps a column name to an Optional value (None is Python's None).
\* for key, value in update_data.items():
\*     if hasattr(user, key) and value is not None: setattr(user, key, value)
update_user(row, update_data) ==
    [k \in DOMAIN row |->
        IF k \in DOMAIN update_data /\ update_data[k] # None
        THEN The(update_data[k])
        ELSE row[k]]

----------------------------------------------------------------------------
(* HTTP exceptions and responses *)

NoRaise == [raised |-> FALSE, status_code |-> 200, detail |-> ""]
Raise(status_code, detail) ==
    [raised |-> TRUE, status_code |-> status_code, detail |-> detail]

\* str(HTTPException): "<status_code>: <detail>"
StrOfException(e) == ToString(e.status_code) \o ": " \o e.detail

Response(code, detail) ==
    [code |-> code, detail |-> detail, message |-> "",
     access_token |-> None, require_relogin |-> FALSE, status_updated |-> FALSE,
     mail |-> None]

----------------------------------------------------------------------------
(* auth.py: bearer tokens *)

\* create_token: the claims that are signed; roles are upper-cased
create_token(data) ==
    [sub |-> data.sub,
     roles |-> [i \in DOMAIN data.roles |-> UpperCase(data.roles[i])],
     user_id |-> data.user_id]

\* get_current_user: the user named by the token's subject, by user_name
get_current_user(token) ==
    IF token \notin issued THEN None      \* jwt.decode rejects what was not signed
    ELSE get_user_by_username(token.sub)

\* a variant that lets every authenticated user through
check_admin_allow_all(row) == NoRaise

\* check_admin: 'ADMIN' in user.roles.split(',')
check_admin(row) ==
    IF \E i \in DOMAIN row.roles : row.roles[i] = "ADMIN"
    THEN NoRaise
    ELSE Raise(403, "Only admins can perform this action")

----------------------------------------------------------------------------
(* services/auth_service.py *)

validate_roles(role) == role \in UserRoleValues

\* roles is the stored comma-separated string, held as the list split(',') gives
process_roles(roles) ==
    IF roles = << >>
    THEN [raised |-> FALSE, value |-> <<"USER">>]
    ELSE LET processed_roles == [i \in DOMAIN roles |-> UpperCase(roles[i])]
             invalid_roles == SelectSeq(processed_roles, LAMBDA r : ~validate_roles(r))
         IN  [raised |-> invalid_roles # << >>, value |-> processed_roles]

MsgInvalidLogin == "Invalid username or password"
MsgNotActive == "Account is not active"

\* a variant that skips the status check
handle_login_checks_no_status(user, password) ==
    IF user = None
    THEN Raise(401, MsgInvalidLogin)
    ELSE IF ~verify_password(password, users[The(user)].hashed_password)
    THEN Raise(401, MsgInvalidLogin)
    ELSE NoRaise

\* AuthService._handle_login_checks; user is the Optional id of the row found
handle_login_checks(user, password) ==
    IF user = None
    THEN Raise(401, MsgInvalidLogin)
    ELSE IF users[The(user)].status # ACTIVE
    THEN Raise(401, MsgNotActive)
    ELSE IF ~verify_password(password, users[The(user)].hashed_password)
    THEN Raise(401, MsgInvalidLogin)
    ELSE NoRaise

\* UserService.update_last_login: last_login := now, committed
update_last_login(row) == [row EXCEPT !.last_login = Some(now)]

\* AuthService.login: the exception it raises (if any), the users table it
\* leaves, and the token it returns
login(username, password) ==
    LET user == get_user_by_username(username)
        chk == handle_login_checks(user, password)
    IN  IF chk.raised
        THEN [exc |-> chk, users |-> users, token |-> None]
        ELSE LET row == update_last_login(users[The(user)])
                 table == [users EXCEPT ![The(user)] = row]
                 user_roles == process_roles(row.roles)
             IN  IF user_roles.raised
                 THEN [exc |-> Raise(500, "An unexpected error occurred during login"),
                       users |-> table, token |-> None]
                 ELSE [exc |-> NoRaise, users |-> table,
                       token |-> Some(create_token([sub |-> row.user_name,
                                                    roles |-> user_roles.value,
                                                    user_id |-> row.id]))]

MsgGenericRecovery == "If the email exists, a recovery link will be sent."
MsgRecoveryInitiated == "Recovery initiated successfully"

\* AuthService.initiate_password_recovery; token is the value token_urlsafe draws
initiate_password_recovery(email, token) ==
    LET user == get_user_by_email(email)
    IN  IF user = None
        THEN [token |-> None, message |-> MsgGenericRecovery, users |-> users]
        ELSE LET expiry_time == now + RESET_TOKEN_HOURS
             IN  [token |-> Some(token), message |-> MsgRecoveryInitiated,
                  users |-> [users EXCEPT ![The(user)].reset_token = Some(token),
                                          ![The(user)].reset_token_expiry = Some(expiry_time)]]

\* a variant that promotes every account that is not ACTIVE
is_first_password_set_any_inactive(row) == row.status # ACTIVE

\* if user.status == UserStatus.PENDING
is_first_password_set(row) == row.status = PENDING

\* a variant that does not look at the newest entry of the history
check_history_skip_newest(new_password, row) ==
    check_password_history(new_password,
                           SubSeq(row.last_passwords, 1, Len(row.last_passwords) - 1))

\* self.password_service.check_password_history(new_password, user.last_passwords)
check_history(new_password, row) ==
    check_password_history(new_password, row.last_passwords)

MsgWrongCurrent == "Current password is incorrect"
MsgReused == "Cannot use any of your last 5 passwords"

\* AuthService.update_password on the row with id user; salt is the salt
\* gensalt draws when the new password is hashed
update_password(user, new_password, current_password, salt) ==
    LET row == users[user]
    IN  IF TruthyStr(current_password)
           /\ ~verify_password(The(current_password), row.hashed_password)
        THEN [exc |-> Raise(400, MsgWrongCurrent), users |-> users,
              require_relogin |-> FALSE, status_updated |-> FALSE]
        ELSE IF ~check_history(new_password, row)
        THEN [exc |-> Raise(400, MsgReused), users |-> users,
              require_relogin |-> FALSE, status_updated |-> FALSE]
        ELSE LET new_hash == hash_password(new_password, salt)
                 new_history == update_password_history(row.hashed_password,
                                                        row.last_passwords)
                 base == [hashed_password |-> Some(new_hash),
                          last_passwords |-> Some(new_history),
                          reset_token |-> None,
                          reset_token_expiry |-> None]
                 promote == is_first_password_set(row)
                 update_data == IF promote
                                THEN [k \in DOMAIN base \cup {"status"} |->
                                        IF k = "status" THEN Some(ACTIVE) ELSE base[k]]
                                ELSE base
             IN  [exc |-> NoRaise,
                  users |-> [users EXCEPT ![user] = update_user(row, update_data)],
                  require_relogin |-> TruthyStr(current_password),
                  status_updated |-> promote]

----------------------------------------------------------------------------
(* schema.py: PasswordUpdateRequest *)

\* A request body: given is the set of keys present in the JSON object; a key
\* that is present may carry null (None).  A key that is absent takes the
\* field's default, None, and pydantic runs no field validator on a default.

\* getattr(field.data, 'token', None): field.data is the dict of the fields
\* validated so far, and a dict has no attribute named 'token'
DataToken(body) == None

\* validate_required_fields on a supplied value v: TRUE when it raises
validate_required_fields(v, body) ==
    LET token == DataToken(body)
    IN  ~TruthyText(token) /\ v = None

\* PasswordUpdateRequest(**body): the validators of user_id and
\* current_password run on supplied values, the strength check on new_password
PasswordUpdateRequest(body) ==
    LET required_error ==
            \/ "user_id" \in body.given /\ validate_required_fields(body.user_id, body)
            \/ "current_password" \in body.given
                  /\ validate_required_fields(body.current_password, body)
        strength == validate_password_strength(body.new_password)
    IN  [raised |-> required_error \/ strength.raised,
         required_error |-> required_error,
         strength |-> strength]

----------------------------------------------------------------------------
(* routes/auth_routes.py *)

get_user_or_404(user_id, email, reset_token) ==
    LET user == IF TruthyText(reset_token)
                THEN get_user_by_reset_token(The(reset_token))
                ELSE IF TruthyInt(user_id)
                THEN get_user_by_id(The(user_id))
                ELSE IF TruthyText(email)
                THEN get_user_by_email(The(email))
                ELSE None
    IN  [exc |-> IF user = None THEN Raise(404, "User not found") ELSE NoRaise,
         user |-> user]

\* bcrypt.gensalt(): a salt no earlier hash of this user was made with.  Hashes
\* are only ever compared with hashes of the same user, so the salt is the
\* number of hashes the user has had before: none for a row being created, the
\* first hash and every replaced one for an existing row.
FreshSalt(user) == IF user \in DOMAIN users THEN Len(replaced[user]) + 1 ELSE 0

\* the number of password updates that have succeeded so far
RECURSIVE UpdatesDone(_)
UpdatesDone(n) == IF n = 0 THEN 0 ELSE Len(replaced[n]) + UpdatesDone(n - 1)

\* a generator that draws the same value every time
RepeatedToken == "t" \o ToString(1)

\* secrets.token_urlsafe(32): a value never drawn before
FreshToken == "t" \o ToString(nextToken + 1)

\* a variant that stores the token and leaves the expiry as it was
create_reset_token_without_expiry(user, token) ==
    [users EXCEPT ![user].reset_token = Some(token)]

\* create_reset_token
create_reset_token(user, token) ==
    [users EXCEPT ![user].reset_token = Some(token),
                  ![user].reset_token_expiry = Some(now + RESET_TOKEN_HOURS)]

\* POST /login
Login(username, password) ==
    LET result == login(username, password)
    IN  /\ req' = [op |-> "login", username |-> username, password |-> password]
        /\ users' = result.users
        /\ IF result.exc.raised
           THEN /\ resp' = Response(401, StrOfException(result.exc))
                /\ UNCHANGED issued
           ELSE /\ resp' = [Response(200, "") EXCEPT
                               !.message = "Login successful",
                               !.access_token = result.token]
                /\ issued' = issued \cup result.token
        /\ UNCHANGED <<nextUserId, now, nextToken, replaced, pwVars, restVars>>

\* password_recovery: the HTTP response, the background task it enqueues and
\* the users table it leaves
password_recovery(email) ==
    LET result == initiate_password_recovery(email, FreshToken)
    IN  [response |-> [Response(200, "") EXCEPT !.message = result.message],
         mail |-> IF result.token # None
                  THEN Some([to |-> email, token |-> The(result.token)])
                  ELSE None,
         users |-> result.users]

\* POST /password-recovery
PasswordRecovery(email) ==
    LET result == password_recovery(email)
    IN  /\ req' = [op |-> "password_recovery", email |-> email]
        /\ users' = result.users
        /\ nextToken' = IF result.mail # None THEN nextToken + 1 ELSE nextToken
        /\ resp' = [result.response EXCEPT !.mail = result.mail]
        /\ UNCHANGED <<nextUserId, now, issued, replaced, pwVars, restVars>>

\* POST /resend-password-recovery
ResendPasswordRecovery(email) ==
    LET found == get_user_or_404(None, Some(email), None)
    IN  /\ req' = [op |-> "resend_password_recovery", email |-> email]
        /\ IF found.exc.raised
           THEN /\ resp' = Response(found.exc.status_code, found.exc.detail)
                /\ UNCHANGED <<users, nextToken>>
           ELSE /\ users' = create_reset_token(The(found.user), FreshToken)
                /\ nextToken' = nextToken + 1
                /\ resp' = [Response(200, "") EXCEPT
                               !.message = "Password recovery email resent to " \o email,
                               !.mail = Some([to |-> email, token |-> FreshToken])]
        /\ UNCHANGED <<nextUserId, now, issued, replaced, pwVars, restVars>>

\* POST /update-password
UpdatePassword(body) ==
    LET parsed == PasswordUpdateRequest(body)
        found == get_user_or_404(body.user_id, None, body.token)
    IN  /\ req' = [op |-> "update_password", body |-> body]
        /\ IF parsed.raised
           THEN /\ \/ /\ parsed.strength.raised
                      /\ resp' = Response(422, "password")
                   \/ /\ parsed.required_error
                      /\ \E code \in {422, 500} : resp' = Response(code, "validation")
                /\ UNCHANGED <<users, replaced>>
           ELSE IF found.exc.raised
           THEN /\ resp' = Response(found.exc.status_code, found.exc.detail)
                /\ UNCHANGED <<users, replaced>>
           ELSE LET user == The(found.user)
                    result == update_password(user, body.new_password,
                                              body.current_password, FreshSalt(user))
                IN  IF result.exc.raised
                    THEN /\ resp' = Response(result.exc.status_code, result.exc.detail)
                         /\ UNCHANGED <<users, replaced>>
                    ELSE /\ users' = result.users
                         /\ replaced' = [replaced EXCEPT ![user] =
                                            Append(@, users[user].hashed_password)]
                         /\ resp' = [Response(200, "") EXCEPT
                                        !.message = "Password updated successfully",
                                        !.require_relogin = result.require_relogin,
                                        !.status_updated = result.status_updated]
        /\ UNCHANGED <<nextUserId, now, nextToken, issued, pwVars, restVars>>

----------------------------------------------------------------------------
(* routes.py: POST /users *)

\* body: user_name, email, password, roles (list of UserRole), status
CreateUser(bearer, body) ==
    LET current_user == get_current_user(bearer)
        strength == validate_password_strength(body.password)
        existing_user == First({i \in DOMAIN users :
                                   \/ users[i].email = body.email
                                   \/ users[i].user_name = body.user_name})
        reset_token == FreshToken
        reset_token_expiry == now + WELCOME_TOKEN_HOURS
        new_user == Row(nextUserId, body.user_name, body.email,
                        hash_password(body.password, FreshSalt(nextUserId)),
                        body.status, body.roles,
                        Some(reset_token), Some(reset_token_expiry))
    IN  /\ req' = [op |-> "create_user", bearer |-> bearer, body |-> body]
        /\ IF current_user = None
           THEN /\ resp' = Response(401, "Could not validate credentials")
                /\ UNCHANGED <<users, nextUserId, nextToken>>
           ELSE IF strength.raised
           THEN /\ resp' = Response(422, "password")
                /\ UNCHANGED <<users, nextUserId, nextToken>>
           ELSE IF check_admin(users[The(current_user)]).raised
           THEN /\ resp' = Response(403, "Only admins can perform this action")
                /\ UNCHANGED <<users, nextUserId, nextToken>>
           ELSE IF existing_user # None
           THEN /\ resp' = Response(400, "User with this email or username already exists")
                /\ UNCHANGED <<users, nextUserId, nextToken>>
           ELSE /\ users' = [i \in DOMAIN users \cup {nextUserId} |->
                                IF i = nextUserId THEN new_user ELSE users[i]]
                /\ nextUserId' = nextUserId + 1
                /\ nextToken' = nextToken + 1
                /\ resp' = [Response(200, "") EXCEPT
                               !.message = "User created successfully and welcome email queued",
                               !.mail = Some([to |-> body.email, token |-> reset_token])]
        /\ UNCHANGED <<now, issued, replaced, pwVars, restVars>>

\* 'admin' in current_user.roles.lower(): a substring test on the stored string;
\* of the role spellings that occur only ADMIN contains it
LowerContainsAdmin(roles) ==
    \E i \in DOMAIN roles : roles[i] \in {"ADMIN", "admin"}

\* GET /users.  The response model declares status as str; whether the row's
\* status serialises depends on the enumeration's base class, so the admin's
\* answer is 200 or 500.
GetAllUsers(bearer) ==
    LET current_user == get_current_user(bearer)
    IN  /\ req' = [op |-> "get_all_users", bearer |-> bearer]
        /\ IF current_user = None
           THEN resp' = Response(401, "Could not validate credentials")
           ELSE IF ~LowerContainsAdmin(users[The(current_user)].roles)
           THEN resp' = Response(403, "Admin privileges required")
           ELSE \E code \in {200, 500} : resp' = Response(code, "")
        /\ UNCHANGED <<users, nextUserId, now, nextToken, issued, replaced, pwVars, restVars>>

\* GET /users/{user_id}
GetUser(bearer, user_id) ==
    LET current_user == get_current_user(bearer)
    IN  /\ req' = [op |-> "get_user", bearer |-> bearer, user_id |-> user_id]
        /\ IF current_user = None
           THEN resp' = Response(401, "Could not validate credentials")
           ELSE IF check_admin(users[The(current_user)]).raised
           THEN resp' = Response(403, "Only admins can perform this action")
           ELSE IF get_user_by_id(user_id) = None
           THEN resp' = Response(404, "User not found.")
           ELSE resp' = Response(200, "")
        /\ UNCHANGED <<users, nextUserId, now, nextToken, issued, replaced, pwVars, restVars>>

\* a variant that never recognises the caller's own row
is_own_account_never(user_to_delete, current_user) == FALSE

\* if user_to_delete.id == current_user.id
is_own_account(user_to_delete, current_user) ==
    user_to_delete.id = current_user.id

\* DELETE /users/{user_id}
DeleteUser(bearer, user_id) ==
    LET current_user == get_current_user(bearer)
        user_to_delete == get_user_by_id(user_id)
    IN  /\ req' = [op |-> "delete_user", bearer |-> bearer, user_id |-> user_id]
        /\ IF current_user = None
           THEN /\ resp' = Response(401, "Could not validate credentials")
                /\ UNCHANGED users
           ELSE IF check_admin(users[The(current_user)]).raised
           THEN /\ resp' = Response(403, "Only admins can perform this action")
                /\ UNCHANGED users
           ELSE IF user_to_delete = None
           THEN /\ resp' = Response(404, "User not found")
                /\ UNCHANGED users
           ELSE IF is_own_account(users[The(user_to_delete)], users[The(current_user)])
           THEN /\ resp' = Response(400, "Cannot delete your own account")
                /\ UNCHANGED users
           ELSE /\ users' = [i \in DOMAIN users \ {The(user_to_delete)} |-> users[i]]
                /\ resp' = Response(204, "")
        /\ UNCHANGED <<nextUserId, now, nextToken, issued, replaced, pwVars, restVars>>

\* UserUpdateRequest.validate_roles: TRUE when it raises
validate_update_roles(v) ==
    v # None /\ \E i \in DOMAIN The(v) : UpperCase(The(v)[i]) \notin UserRoleValues

\* UserUpdateRequest(**body): roles come out upper-cased
UserUpdateRequest(body) ==
    [raised |-> validate_update_roles(body.roles),
     roles |-> IF body.roles = None THEN None
               ELSE Some([i \in DOMAIN The(body.roles) |-> UpperCase(The(body.roles)[i])]),
     status |-> body.status]

\* PUT /users/{user_id}; body: roles (Optional list of str), status (Optional)
EditUser(bearer, user_id, body) ==
    LET current_user == get_current_user(bearer)
        user_update == UserUpdateRequest(body)
        db_user == get_user_by_id(user_id)
        \* an empty roles list is kept as a list, which the String column refuses
        bad_roles == user_update.roles # None /\ The(user_update.roles) = << >>
        update_data == [roles |-> user_update.roles, status |-> user_update.status]
    IN  /\ req' = [op |-> "edit_user", bearer |-> bearer, user_id |-> user_id,
                   body |-> body]
        /\ IF current_user = None
           THEN /\ resp' = Response(401, "Could not validate credentials")
                /\ UNCHANGED users
           ELSE IF user_update.raised
           THEN /\ resp' = Response(422, "validation")
                /\ UNCHANGED users
           ELSE IF check_admin(users[The(current_user)]).raised
           THEN /\ resp' = Response(403, "Only admins can perform this action")
                /\ UNCHANGED users
           ELSE IF db_user = None
           THEN /\ resp' = Response(404, "User not found")
                /\ UNCHANGED users
           ELSE IF bad_roles
           THEN /\ resp' = Response(500, "roles")
                /\ UNCHANGED users
           ELSE /\ users' = [users EXCEPT ![The(db_user)] = update_user(@, update_data)]
                /\ resp' = Response(202, "")
        /\ UNCHANGED <<nextUserId, now, nextToken, issued, replaced, pwVars, restVars>>

----------------------------------------------------------------------------
(* routes/user_profile_routes.py *)

\* "ADMIN" in current_user.roles: a substring test on the stored string; of the
\* role names that occur only ADMIN contains it
RolesContainADMIN(roles) == \E i \in DOMAIN roles : roles[i] = "ADMIN"

\* current_user.id != user_id and "ADMIN" not in current_user.roles
not_authorized(current_user, user_id) ==
    current_user.id # user_id /\ ~RolesContainADMIN(current_user.roles)

\* model_dump(exclude_unset=True) is empty: the body sets no field
NoDataProvided(body) == body.bio = None

\* the address with this id that belongs to this user, if any
FindAddress(address_id, user_id) ==
    {a \in addresses : a.id = address_id /\ a.user_id = user_id}

\* GET /users/{user_id}/profile
GetUserProfile(bearer, user_id) ==
    LET current_user == get_current_user(bearer)
    IN  /\ req' = [op |-> "get_user_profile", bearer |-> bearer, user_id |-> user_id]
        /\ IF current_user = None
           THEN resp' = Response(401, "Could not validate credentials")
           ELSE IF not_authorized(users[The(current_user)], user_id)
           THEN resp' = Response(403, "Not authorized to access this profile")
           ELSE IF user_id \notin DOMAIN profiles
           THEN resp' = Response(404, "Profile not found")
           ELSE resp' = Response(200, "")
        /\ UNCHANGED <<users, nextUserId, now, nextToken, issued, replaced, pwVars, trackerVars, appVars,
                       profileVars>>

\* PUT /users/{user_id}/profile; body: bio (None when the key is left out)
UpdateUserProfile(bearer, user_id, body) ==
    LET current_user == get_current_user(bearer)
        user == get_user_by_id(user_id)
    IN  /\ req' = [op |-> "update_user_profile", bearer |-> bearer,
                   user_id |-> user_id, body |-> body]
        /\ IF current_user = None
           THEN /\ resp' = Response(401, "Could not validate credentials")
                /\ UNCHANGED profiles
           ELSE IF user = None
           THEN /\ resp' = Response(404, "User not found")
                /\ UNCHANGED profiles
           ELSE IF not_authorized(users[The(current_user)], user_id)
           THEN /\ resp' = Response(403, "Not authorized to update this profile")
                /\ UNCHANGED profiles
           ELSE IF NoDataProvided(body)
           THEN /\ resp' = Response(400, "No data provided for update")
                /\ UNCHANGED profiles
           ELSE /\ profiles' = [i \in DOMAIN profiles \cup {user_id} |->
                                   IF i = user_id
                                   THEN [user_id |-> user_id, bio |-> body.bio]
                                   ELSE profiles[i]]
                /\ resp' = Response(200, "")
        /\ UNCHANGED <<users, nextUserId, now, nextToken, issued, replaced, pwVars, trackerVars, appVars,
                       addresses, nextAddressId>>

\* GET /users/{user_id}/addresses
GetUserAddresses(bearer, user_id) ==
    LET current_user == get_current_user(bearer)
    IN  /\ req' = [op |-> "get_user_addresses", bearer |-> bearer, user_id |-> user_id]
        /\ IF current_user = None
           THEN resp' = Response(401, "Could not validate credentials")
           ELSE IF not_authorized(users[The(current_user)], user_id)
           THEN resp' = Response(403, "Not authorized to access these addresses")
           ELSE resp' = Response(200, "")
        /\ UNCHANGED <<users, nextUserId, now, nextToken, issued, replaced, pwVars, trackerVars, appVars,
                       profileVars>>

\* POST /users/{user_id}/addresses; body: city (None when the key is left out)
CreateUserAddress(bearer, user_id, body) ==
    LET current_user == get_current_user(bearer)
        user == get_user_by_id(user_id)
    IN  /\ req' = [op |-> "create_user_address", bearer |-> bearer,
                   user_id |-> user_id, body |-> body]
        /\ IF current_user = None
           THEN /\ resp' = Response(401, "Could not validate credentials")
                /\ UNCHANGED <<addresses, nextAddressId>>
           ELSE IF user = None
           THEN /\ resp' = Response(404, "User not found")
                /\ UNCHANGED <<addresses, nextAddressId>>
           ELSE IF not_authorized(users[The(current_user)], user_id)
           THEN /\ resp' = Response(403, "Not authorized to create address")
                /\ UNCHANGED <<addresses, nextAddressId>>
           ELSE /\ addresses' = addresses \cup
                      {[id |-> nextAddressId, user_id |-> user_id, city |-> body.city]}
                /\ nextAddressId' = nextAddressId + 1
                /\ resp' = Response(200, "")
        /\ UNCHANGED <<users, nextUserId, now, nextToken, issued, replaced, pwVars, trackerVars, appVars,
                       profiles>>

\* PUT /users/{user_id}/addresses/{address_id}
UpdateUserAddress(bearer, user_id, address_id, body) ==
    LET current_user == get_current_user(bearer)
        address == FindAddress(address_id, user_id)
    IN  /\ req' = [op |-> "update_user_address", bearer |-> bearer,
                   user_id |-> user_id, address_id |-> address_id, body |-> body]
        /\ IF current_user = None
           THEN /\ resp' = Response(401, "Could not validate credentials")
                /\ UNCHANGED addresses
           ELSE IF not_authorized(users[The(current_user)], user_id)
           THEN /\ resp' = Response(403, "Not authorized to update this address")
                /\ UNCHANGED addresses
           ELSE IF address = {}
           THEN /\ resp' = Response(404, "Address not found")
                /\ UNCHANGED addresses
           ELSE /\ addresses' = (addresses \ address) \cup
                      {[a EXCEPT !.city = IF body.city = None THEN @ ELSE body.city] :
                          a \in address}
                /\ resp' = Response(200, "")
        /\ UNCHANGED <<users, nextUserId, now, nextToken, issued, replaced, pwVars, trackerVars, appVars,
                       profiles, nextAddressId>>

\* DELETE /users/{user_id}/addresses/{address_id}
DeleteUserAddress(bearer, user_id, address_id) ==
    LET current_user == get_current_user(bearer)
        address == FindAddress(address_id, user_id)
    IN  /\ req' = [op |-> "delete_user_address", bearer |-> bearer,
                   user_id |-> user_id, address_id |-> address_id]
        /\ IF current_user = None
           THEN /\ resp' = Response(401, "Could not validate credentials")
                /\ UNCHANGED addresses
           ELSE IF not_authorized(users[The(current_user)], user_id)
           THEN /\ resp' = Response(403, "Not authorized to delete this address")
                /\ UNCHANGED addresses
           ELSE IF address = {}
           THEN /\ resp' = Response(404, "Address not found")
                /\ UNCHANGED addresses
           ELSE /\ addresses' = addresses \ address
                /\ resp' = Response(204, "")
        /\ UNCHANGED <<users, nextUserId, now, nextToken, issued, replaced, pwVars, trackerVars, appVars,
                       profiles, nextAddressId>>

----------------------------------------------------------------------------
(* middleware/enhanced_connection_tracker.py: the rate limiter *)

\* RateLimitInfo(window_seconds)
RateLimitInfo(window_seconds) == [requests |-> << >>, window_seconds |-> window_seconds]

\* RateLimitInfo.clean_old_requests
clean_old_requests_keep_cutoff(info, current_time) ==
    [info EXCEPT !.requests =
        SelectSeq(@, LAMBDA ts : ts >= current_time - info.window_seconds)]

clean_old_requests(info, current_time) ==
    [info EXCEPT !.requests =
        SelectSeq(@, LAMBDA ts : ts > current_time - info.window_seconds)]

\* RateLimitInfo.add_request
add_request(info, current_time) ==
    [clean_old_requests(info, current_time) EXCEPT !.requests = Append(@, current_time)]

\* RateLimitInfo.get_request_count: cleans the list, then counts it
get_request_count(info, current_time) == Len(clean_old_requests(info, current_time).requests)

\* f"{source_ip}:{endpoint}"
RateLimitKey(source_ip, endpoint) == <<source_ip, ":", endpoint>>

\* rate_limit_info.get_request_count() >= limit
limit_reached_above_only(count, limit) == count > limit

limit_reached(count, limit) == count >= limit

\* EnhancedConnectionTracker.check_rate_limit, with the lock held: the table
\* afterwards and the value returned
check_rate_limit(source_ip, endpoint, limit, window) ==
    LET key == RateLimitKey(source_ip, endpoint)
        info == IF key \notin DOMAIN rate_limits THEN RateLimitInfo(window)
                ELSE IF rate_limits[key].window_seconds # window THEN RateLimitInfo(window)
                ELSE rate_limits[key]
        denied == limit_reached(get_request_count(info, clock), limit)
        after == IF denied THEN clean_old_requests(info, clock)
                 ELSE add_request(info, clock)
    IN  [rate_limits |-> [k \in DOMAIN rate_limits \cup {key} |->
                             IF k = key THEN after ELSE rate_limits[k]],
         result |-> ~denied]

NoCall == [key |-> << >>, result |-> FALSE, at |-> 0 - 1, denials |-> 0]

\* what is remembered of a key's calls: the time of the last allowed one and the
\* number of denied ones since (counted up to MaxDenials)
NoLog == [last_allowed |-> None, denials |-> 0]

LogOf(key) == IF key \in DOMAIN rl_log THEN rl_log[key] ELSE NoLog

Logged(key, result) ==
    [k \in DOMAIN rl_log \cup {key} |->
        IF k # key THEN rl_log[k]
        ELSE IF result THEN [last_allowed |-> Some(clock), denials |-> 0]
        ELSE [LogOf(key) EXCEPT !.denials = IF @ < MaxDenials THEN @ + 1 ELSE @]]

\* one call of check_rate_limit, from acquiring the lock to releasing it
CheckRateLimit(source_ip, endpoint) ==
    LET out == check_rate_limit(source_ip, endpoint, rate_limit, DEFAULT_WINDOW)
        key == RateLimitKey(source_ip, endpoint)
    IN  /\ lock = "free"
        /\ rate_limits' = out.rate_limits
        /\ rl_call' = [key |-> key, result |-> out.result, at |-> clock,
                       denials |-> LogOf(key).denials]
        /\ rl_log' = Logged(key, out.result)
        /\ UNCHANGED <<clock, rate_limit, connectionVars, conn, authVars, pwVars,
                       profileVars, appVars>>

\* half a minute passes
TickClock ==
    /\ clock' = clock + 1
    /\ UNCHANGED <<rate_limits, rate_limit, rl_call, rl_log, connectionVars, conn,
                   authVars, pwVars, profileVars, appVars>>

----------------------------------------------------------------------------
(* middleware/enhanced_connection_tracker.py: connections and the cleanup task *)

\* ConnectionInfo(...)
ConnectionInfo(request_id, start_time, endpoint, source_ip) ==
    [request_id |-> request_id, start_time |-> start_time, endpoint |-> endpoint,
     source_ip |-> source_ip]

\* the body of add_connection, under the lock: the three tables afterwards
add_connection(request_id, endpoint, source_ip) ==
    [active_connections |->
        [id \in DOMAIN active_connections \cup {request_id} |->
            IF id = request_id
            THEN ConnectionInfo(request_id, clock, endpoint, source_ip)
            ELSE active_connections[id]],
     endpoint_stats |-> [endpoint_stats EXCEPT ![endpoint] = @ + 1],
     ip_stats |-> [ip_stats EXCEPT ![source_ip] = @ \cup {endpoint}]]

\* the body of remove_connection, under the lock: the two tables afterwards
remove_connection(request_id) ==
    IF request_id \in DOMAIN active_connections
    THEN [active_connections |->
             [id \in DOMAIN active_connections \ {request_id} |-> active_connections[id]],
          endpoint_stats |->
             [endpoint_stats EXCEPT ![active_connections[request_id].endpoint] = @ - 1]]
    ELSE [active_connections |-> active_connections, endpoint_stats |-> endpoint_stats]

\* conn.start_time < stale_threshold
stale_connections ==
    {id \in DOMAIN active_connections :
        active_connections[id].start_time < clock - STALE_AGE}

\* await tracker.add_connection(...), called directly
AddConnection(request_id, endpoint, source_ip) ==
    LET out == add_connection(request_id, endpoint, source_ip)
    IN  /\ lock = "free"
        /\ active_connections' = out.active_connections
        /\ endpoint_stats' = out.endpoint_stats
        /\ ip_stats' = out.ip_stats
        /\ UNCHANGED <<lock, reaper, limiterVars, conn, authVars, pwVars, profileVars, appVars>>

\* await tracker.remove_connection(...), called directly
RemoveConnection(request_id) ==
    LET out == remove_connection(request_id)
    IN  /\ lock = "free"
        /\ active_connections' = out.active_connections
        /\ endpoint_stats' = out.endpoint_stats
        /\ UNCHANGED <<ip_stats, lock, reaper, limiterVars, conn, authVars, pwVars,
                       profileVars, appVars>>

\* one turn of cleanup_stale_connections once its sleep is over: it takes the
\* lock and lists the stale connections; with none it releases the lock and
\* sleeps again; with one it awaits remove_connection, which waits for the lock
\* the task itself is holding
CleanupStaleConnections ==
    /\ reaper.pc = "sleeping" /\ clock >= reaper.wake
    /\ lock = "free"
    /\ IF stale_connections = {}
       THEN /\ reaper' = [pc |-> "sleeping", wake |-> clock + CLEANUP_SLEEP]
            /\ UNCHANGED lock
       ELSE /\ reaper' = [pc |-> "waiting for the lock", wake |-> clock]
            /\ lock' = "cleanup task"
    /\ UNCHANGED <<active_connections, endpoint_stats, ip_stats, limiterVars, conn,
                   authVars, pwVars, profileVars, appVars>>

----------------------------------------------------------------------------
(* middleware/connection_middleware.py *)

\* exclude_paths, as main.py configures the middleware
EXCLUDE_PATHS == {"/api/health", "/api/rate-limit-info"}

\* request.url.path in exclude_paths
is_excluded_never(path) == FALSE

is_excluded(path) == path \in EXCLUDE_PATHS

\* what the middleware knows of a request: status is 0 until it has answered
Tracked(path, source_ip, pc, status) ==
    [path |-> path, source_ip |-> source_ip, pc |-> pc, status |-> status]

Put(request_id, entry) ==
    [id \in DOMAIN conn \cup {request_id} |-> IF id = request_id THEN entry ELSE conn[id]]

\* the finally block of track_connection: remove_connection under the lock; with
\* the lock taken the request waits and is answered only when it gets it
Leave(request_id, status) ==
    IF lock = "free"
    THEN /\ active_connections' = remove_connection(request_id).active_connections
         /\ endpoint_stats' = remove_connection(request_id).endpoint_stats
         /\ conn' = [conn EXCEPT ![request_id].pc = "done", ![request_id].status = status]
    ELSE /\ conn' = [conn EXCEPT ![request_id].pc = "waiting to remove"]
         /\ UNCHANGED <<active_connections, endpoint_stats>>

\* dispatch up to call_next: track_connection is entered; an excluded path goes
\* straight to the handler; otherwise check_rate_limit decides between 429 and
\* add_connection followed by the handler
Dispatch(request_id, path, source_ip) ==
    LET out == check_rate_limit(source_ip, path, rate_limit, DEFAULT_WINDOW)
        key == RateLimitKey(source_ip, path)
        added == add_connection(request_id, path, source_ip)
    IN  /\ request_id \notin DOMAIN conn
        /\ IF is_excluded(path)
           THEN /\ conn' = Put(request_id, Tracked(path, source_ip, "call_next", 0))
                /\ UNCHANGED <<rate_limits, rl_call, rl_log, active_connections,
                               endpoint_stats, ip_stats>>
           ELSE IF lock # "free"
           THEN /\ conn' = Put(request_id, Tracked(path, source_ip, "waiting for the lock", 0))
                /\ UNCHANGED <<rate_limits, rl_call, rl_log, active_connections,
                               endpoint_stats, ip_stats>>
           ELSE /\ rate_limits' = out.rate_limits
                /\ rl_call' = [key |-> key, result |-> out.result, at |-> clock,
                               denials |-> LogOf(key).denials]
                /\ rl_log' = Logged(key, out.result)
                /\ IF out.result
                   THEN /\ active_connections' = added.active_connections
                        /\ endpoint_stats' = added.endpoint_stats
                        /\ ip_stats' = added.ip_stats
                        /\ conn' = Put(request_id, Tracked(path, source_ip, "call_next", 0))
                   ELSE /\ active_connections' = remove_connection(request_id).active_connections
                        /\ endpoint_stats' = remove_connection(request_id).endpoint_stats
                        /\ conn' = Put(request_id, Tracked(path, source_ip, "done", 429))
                        /\ UNCHANGED ip_stats
        /\ UNCHANGED <<clock, rate_limit, lock, reaper, authVars, pwVars, profileVars, appVars>>

\* call_next returns a response; the context manager is left normally
HandlerReturns(request_id) ==
    /\ request_id \in DOMAIN conn
    /\ conn[request_id].pc = "call_next"
    /\ IF is_excluded(conn[request_id].path)
       THEN /\ conn' = [conn EXCEPT ![request_id].pc = "done", ![request_id].status = 200]
            /\ UNCHANGED <<active_connections, endpoint_stats>>
       ELSE Leave(request_id, 200)
    /\ UNCHANGED <<ip_stats, lock, reaper, limiterVars, authVars, pwVars, profileVars, appVars>>

\* call_next raises; the exception is thrown into track_connection at its yield.
\* On an excluded path it passes through.  Otherwise "except Exception" catches it
\* and yields a second time, which the context manager answers with a
\* RuntimeError: depending on the contextlib in use it closes the generator
\* first, which runs the finally block, or leaves the generator suspended
HandlerRaises(request_id) ==
    /\ request_id \in DOMAIN conn
    /\ conn[request_id].pc = "call_next"
    /\ IF is_excluded(conn[request_id].path)
       THEN /\ conn' = [conn EXCEPT ![request_id].pc = "done", ![request_id].status = 500]
            /\ UNCHANGED <<active_connections, endpoint_stats>>
       ELSE \E closed \in BOOLEAN :
               IF closed
               THEN Leave(request_id, 500)
               ELSE /\ conn' = [conn EXCEPT ![request_id].pc = "suspended",
                                            ![request_id].status = 500]
                    /\ UNCHANGED <<active_connections, endpoint_stats>>
    /\ UNCHANGED <<ip_stats, lock, reaper, limiterVars, authVars, pwVars, profileVars, appVars>>

\* a suspended generator is collected: the event loop closes it and the finally
\* block runs
Finalize(request_id) ==
    /\ request_id \in DOMAIN conn
    /\ conn[request_id].pc = "suspended"
    /\ lock = "free"
    /\ Leave(request_id, 500)
    /\ UNCHANGED <<ip_stats, lock, reaper, limiterVars, authVars, pwVars, profileVars, appVars>>

\* the request object is gone; its id may be used again
Forget(request_id) ==
    /\ request_id \in DOMAIN conn
    /\ conn[request_id].pc = "done"
    /\ conn' = [id \in DOMAIN conn \ {request_id} |-> conn[id]]
    /\ UNCHANGED <<connectionVars, limiterVars, authVars, pwVars, profileVars, appVars>>

----------------------------------------------------------------------------
(* main.py: the middleware installation, and a request passing the layers *)

\* no request is under way
NoHop == [dir |-> "idle", depth |-> 0, exc |-> None, caught |-> FALSE, entered |-> << >>]

\* the calls main.py makes, in the order it makes them: setup_cors(app), three
\* app.add_middleware(...) and app.middleware("http")(record_performance_metrics)
InstallOrder ==
    <<"CORSMiddleware", "ErrorHandlingMiddleware", "DatabaseMiddleware",
      "EnhancedConnectionMiddleware", "record_performance_metrics">>

\* Starlette.add_middleware: self.user_middleware.insert(0, Middleware(cls)); the
\* stack is built with the first entry of the list outermost
add_middleware_appending(stack, cls) == Append(stack, cls)

add_middleware(stack, cls) == <<cls>> \o stack

\* the next installation call of main.py
Install ==
    /\ Len(user_middleware) < Len(InstallOrder)
    /\ user_middleware' = add_middleware(user_middleware, InstallOrder[Len(user_middleware) + 1])
    /\ UNCHANGED <<hop, served, sessionVars, initVars, monitorVars, authVars, pwVars, profileVars, trackerVars>>

\* the application is serving: every layer is installed
Serving == Len(user_middleware) = Len(InstallOrder)

\* the layers whose own code may raise
Raisers == {"DatabaseMiddleware", "EnhancedConnectionMiddleware", "record_performance_metrics"}

\* a request reaches the outermost layer
Arrive ==
    /\ Serving
    /\ hop.dir \in {"idle", "done"}
    /\ hop' = [NoHop EXCEPT !.dir = "in"]
    /\ UNCHANGED <<user_middleware, served, sessionVars, initVars, monitorVars, authVars, pwVars, profileVars,
                   trackerVars>>

\* the layer the request is in calls call_next: the next layer inwards is entered
EnterLayer ==
    /\ hop.dir = "in" /\ hop.depth < Len(user_middleware)
    /\ hop' = [hop EXCEPT !.depth = @ + 1,
                          !.entered = Append(@, user_middleware[hop.depth + 1])]
    /\ UNCHANGED <<user_middleware, served, sessionVars, initVars, monitorVars, authVars, pwVars, profileVars,
                   trackerVars>>

\* the layer just entered raises instead of calling call_next
LayerRaises ==
    /\ hop.dir = "in" /\ hop.depth >= 1
    /\ user_middleware[hop.depth] \in Raisers
    /\ hop' = [hop EXCEPT !.dir = "out", !.depth = @ - 1,
                          !.exc = Some(user_middleware[hop.depth])]
    /\ UNCHANGED <<user_middleware, served, sessionVars, initVars, monitorVars, authVars, pwVars, profileVars,
                   trackerVars>>

\* the route handler, inside every layer, returns or raises
Endpoint ==
    /\ hop.dir = "in" /\ hop.depth = Len(user_middleware)
    /\ \E raised \in BOOLEAN :
          hop' = [hop EXCEPT !.dir = "out",
                             !.exc = IF raised THEN Some("endpoint") ELSE None]
    /\ UNCHANGED <<user_middleware, served, sessionVars, initVars, monitorVars, authVars, pwVars, profileVars,
                   trackerVars>>

\* call_next comes back to the layer at this depth with a response or an
\* exception: ErrorHandlingMiddleware turns an exception into a 500 response,
\* every other layer lets it through
LeaveLayer ==
    /\ hop.dir = "out" /\ hop.depth >= 1
    /\ IF hop.exc # None /\ user_middleware[hop.depth] = "ErrorHandlingMiddleware"
       THEN hop' = [hop EXCEPT !.depth = @ - 1, !.exc = None, !.caught = TRUE]
       ELSE hop' = [hop EXCEPT !.depth = @ - 1]
    /\ UNCHANGED <<user_middleware, served, sessionVars, initVars, monitorVars, authVars, pwVars, profileVars,
                   trackerVars>>

\* the response, or the exception, leaves the outermost layer
Leave_app ==
    /\ hop.dir = "out" /\ hop.depth = 0
    /\ hop' = [hop EXCEPT !.dir = "done"]
    /\ served' = served + 1
    /\ UNCHANGED <<user_middleware, sessionVars, initVars, monitorVars, authVars, pwVars, profileVars, trackerVars>>

----------------------------------------------------------------------------
(* middleware/db.py and database.get_db: sessions *)

\* SessionLocal(): a session nobody has seen before
FreshSession == nextSession + 1

\* DatabaseMiddleware.dispatch up to "await call_next(request)": a session is
\* opened, kept in the local db and stored in request.app.state.db
DatabaseDispatch(request_id) ==
    /\ request_id \notin DOMAIN bound
    /\ sessions' = sessions \cup {FreshSession}
    /\ nextSession' = FreshSession
    /\ app_state_db' = Some(FreshSession)
    /\ bound' = [id \in DOMAIN bound \cup {request_id} |->
                    IF id = request_id THEN [db |-> FreshSession, dep |-> None]
                    ELSE bound[id]]
    /\ UNCHANGED <<layerVars, initVars, monitorVars, authVars, pwVars, profileVars, trackerVars>>

\* the route resolves Depends(get_db): get_db opens a session of its own
GetDb(request_id) ==
    /\ request_id \in DOMAIN bound
    /\ bound[request_id].dep = None
    /\ sessions' = sessions \cup {FreshSession}
    /\ nextSession' = FreshSession
    /\ bound' = [bound EXCEPT ![request_id].dep = Some(FreshSession)]
    /\ UNCHANGED <<app_state_db, layerVars, initVars, monitorVars, authVars, pwVars, profileVars, trackerVars>>

\* call_next returns or raises: get_db's finally closes its session, then the
\* finally of DatabaseMiddleware.dispatch closes the local db
DatabaseDispatchEnds(request_id) ==
    /\ request_id \in DOMAIN bound
    /\ sessions' = (sessions \ bound[request_id].dep) \ {bound[request_id].db}
    /\ bound' = [id \in DOMAIN bound \ {request_id} |-> bound[id]]
    /\ UNCHANGED <<app_state_db, nextSession, layerVars, initVars, monitorVars, authVars, pwVars, profileVars,
                   trackerVars>>

\* the clock advances by an hour
Tick ==
    /\ now' = now + 1
    /\ UNCHANGED <<users, nextUserId, nextToken, issued, req, resp,
                   replaced, pwVars, restVars>>

----------------------------------------------------------------------------
(* The inputs requests are drawn from *)

\* Mk(fill, n, extras): n copies of the character fill, then extras
Mk(fill, n, extras) == Repeat(fill, n) \o extras

PwA == Mk("a", 13, <<"A", "1", "!">>)
PwB == Mk("b", 13, <<"A", "1", "!">>)
PwC == Mk("a", 13, <<"B", "1", "!">>)
PwD == Mk("b", 13, <<"B", "1", "!">>)
PwWeak == Mk("a", 3, << >>)

TokenValues == {"t" \o ToString(n) : n \in 1..MaxTokens}
UserIds == 1..MaxUsers
LoginNames == UserNames \cup {"nobody"}
RequestEmails == Emails \cup {"nobody@example.com"}

\* a field of a JSON body: absent, or present with a value (null is None)
Absent == [given |-> FALSE, v |-> None]
Given(v) == [given |-> TRUE, v |-> v]

Body(uid, cur, new, tok) ==
    [given |-> {"new_password"}
                 \cup (IF uid.given THEN {"user_id"} ELSE {})
                 \cup (IF cur.given THEN {"current_password"} ELSE {})
                 \cup (IF tok.given THEN {"token"} ELSE {}),
     user_id |-> uid.v, current_password |-> cur.v,
     new_password |-> new, token |-> tok.v]

\* bodies that carry a reset token
TokenBodies ==
    { Body(Absent, Absent, new, Given(Some(t))) :
        new \in {PwA, PwB}, t \in TokenValues }

\* bodies that name the user by id
IdBodies ==
    { Body(Given(Some(i)), cur, new, Absent) :
        i \in UserIds,
        cur \in {Absent, Given(Some(PwA)), Given(Some(PwB))},
        new \in {PwA, PwB} }

\* nothing but a new password; explicit nulls; an empty current password; an
\* empty token; a token together with a current password; a weak password
OddBodies ==
    { Body(Absent, Absent, PwB, Absent),
      Body(Given(None), Given(Some(PwA)), PwB, Absent),
      Body(Given(Some(1)), Given(None), PwB, Absent),
      Body(Given(Some(1)), Given(Some(<< >>)), PwB, Absent),
      Body(Given(Some(1)), Given(Some(PwA)), PwB, Given(Some(""))),
      Body(Absent, Given(Some(PwA)), PwB, Given(Some("t1"))),
      Body(Given(Some(1)), Given(Some(PwA)), PwWeak, Absent) }

UpdateBodies == TokenBodies \cup IdBodies \cup OddBodies

CreateBodies ==
    { [user_name |-> n, email |-> EmailOf(n), password |-> p,
       roles |-> <<"USER">>, status |-> st] :
        n \in UserNames, p \in {PwB, PwWeak}, st \in UserStatus }

----------------------------------------------------------------------------
(* The state init_db leaves: the seeded administrator, nothing else *)

InitialAdmin ==
    [Row(1, "admin", "admin@example.com", hash_password(PwA, 0), ACTIVE, <<"ADMIN">>,
         None, None) EXCEPT !.last_passwords = << >>]

NoRequest == [op |-> "none"]
EmptyCandidate == [fill |-> "a", n |-> 0, extras |-> {}, text |-> << >>]

InitAuth ==
    /\ users = [i \in {1} |-> InitialAdmin]
    /\ nextUserId = 2
    /\ now = 0
    /\ nextToken = 0
    /\ issued = {}
    /\ req = NoRequest
    /\ resp = Response(0, "")
    /\ replaced = [i \in UserIds |-> << >>]

\* the profile and the address create_initial_admin_user stores with the admin
AdminProfile(user_id) == [user_id |-> user_id, bio |-> Some("System Administrator")]
AdminAddress(id, user_id) == [id |-> id, user_id |-> user_id, city |-> None]

InitProfiles ==
    /\ profiles = [i \in {1} |-> AdminProfile(1)]
    /\ addresses = {AdminAddress(1, 1)}
    /\ nextAddressId = 2

\* the tracker as constructed, with the limit the application configures
InitLimiter ==
    /\ clock = 0
    /\ rate_limits = << >>
    /\ rate_limit = DEFAULT_LIMIT
    /\ rl_call = NoCall
    /\ rl_log = << >>

Endpoints == {"/api/users", "/api/health"}
Paths == Endpoints \cup {"/api/rate-limit-info"}
SourceIps == {"10.0.0.1"}

InitConnections ==
    /\ active_connections = << >>
    /\ endpoint_stats = [e \in Paths |-> 0]
    /\ ip_stats = [i \in SourceIps |-> {}]
    /\ lock = "free"
    /\ reaper = [pc |-> "sleeping", wake |-> CLEANUP_SLEEP]

InitMiddleware == conn = << >>

InitTracker == InitLimiter /\ InitConnections /\ InitMiddleware

\* the same with MaxBurst requests per window in place of the configured limit
InitThrottled ==
    /\ clock = 0
    /\ rate_limits = << >>
    /\ rate_limit = MaxBurst
    /\ rl_call = NoCall
    /\ rl_log = << >>
    /\ InitConnections
    /\ InitMiddleware

\* main.py has been imported up to the middleware installation; no request yet
InitLayers ==
    /\ user_middleware = << >>
    /\ hop = NoHop
    /\ served = 0

InitSessions ==
    /\ app_state_db = None
    /\ sessions = {}
    /\ nextSession = 0
    /\ bound = << >>

\* the first run of init_db on a new database is over
InitSeeded ==
    /\ database_exists = TRUE
    /\ tables_exist = TRUE
    /\ is_new_database = Some(TRUE)
    /\ db_init = {[id |-> "1", initialized_at |-> 0]}
    /\ init_outcome = "ok"
    /\ init_runs = 1

INTERVAL == 60
SUPPRESS_WINDOW == 300
MAX_LOGGED == 3
\* psutil.cpu_percent(interval=1) blocks for a second in every tick
CPU_SAMPLE == 1

\* the ways a tick fails: _get_system_metrics returns None, the session raises
\* an SQLAlchemyError, anything else raises an Exception
Failures == {"metrics", "db", "critical"}
Outcomes == {"ok"} \cup Failures

\* PerformanceMonitor(interval=60) is constructed, the lifespan has not begun
InitLifespan ==
    /\ lifespan = "created"
    /\ _cleanup_task = "none"
    /\ monitoring_task = "none"
    /\ cancel_requested = FALSE
    /\ is_running = FALSE
    /\ elapsed = SUPPRESS_WINDOW + 1
    /\ _error_count = 0
    /\ _db_error_count = 0
    /\ logged = [k \in Failures |-> 0]
    /\ last_tick = "none"
    /\ wrote_after_end = FALSE

InitApp == InitLayers /\ InitSessions /\ InitSeeded /\ InitLifespan

InitRest == InitProfiles /\ InitTracker /\ InitApp

Init ==
    /\ InitAuth
    /\ candidate = EmptyCandidate
    /\ verdict = None
    /\ InitRest

\* the response has gone out; the server is ready for the next request
Respond ==
    /\ req # NoRequest
    /\ req' = NoRequest
    /\ resp' = Response(0, "")
    /\ UNCHANGED <<users, nextUserId, now, nextToken, issued, replaced, pwVars, restVars>>

Idle == req = NoRequest

Next ==
    \/ \E n \in LoginNames, p \in {PwA, PwB} : Idle /\ Login(n, p)
    \/ \E e \in RequestEmails : Idle /\ nextToken < MaxTokens /\ PasswordRecovery(e)
    \/ \E e \in RequestEmails : Idle /\ nextToken < MaxTokens /\ ResendPasswordRecovery(e)
    \/ \E b \in UpdateBodies : Idle /\ UpdatesDone(MaxUsers) < MaxUpdates /\ UpdatePassword(b)
    \/ \E t \in issued, b \in CreateBodies :
          /\ Idle /\ nextUserId <= MaxUsers /\ nextToken < MaxTokens
          /\ CreateUser(t, b)
    \/ Idle /\ now < MaxTime /\ Tick
    \/ Respond

Spec == Init /\ [][Next]_vars

----------------------------------------------------------------------------
(* database.py: the module's import and init_db *)

\* importing database.py: check_database_exists() creates the database when it
\* is missing and its result is kept in the module's is_new_database
ImportDatabase ==
    /\ is_new_database' = Some(~database_exists)
    /\ database_exists' = TRUE
    /\ UNCHANGED <<tables_exist, db_init, init_outcome, init_runs, layerVars, sessionVars, monitorVars,
                   authVars, pwVars, profileVars, trackerVars>>

\* is_database_initialized(session)
is_database_initialized == db_init # {}

\* is_new_database or not is_database_initialized(db)
seeding_wanted(is_new) == is_new \/ ~is_database_initialized

\* one run of init_db(): missing tables are created; when seeding is wanted,
\* create_initial_admin_user adds the admin with profile and address unless a
\* user of that name exists, and mark_database_initialized inserts the row with
\* id '1', which the primary key refuses when the row is there already
InitDb ==
    LET admin_exists == get_user_by_username("admin") # None
        create == seeding_wanted(The(is_new_database)) /\ ~admin_exists
        mark == seeding_wanted(The(is_new_database))
    IN  /\ is_new_database # None
        /\ tables_exist' = TRUE
        /\ init_runs' = init_runs + 1
        /\ IF create
           THEN /\ users' = [i \in DOMAIN users \cup {nextUserId} |->
                                IF i = nextUserId THEN [InitialAdmin EXCEPT !.id = nextUserId]
                                ELSE users[i]]
                /\ nextUserId' = nextUserId + 1
                /\ profiles' = [i \in DOMAIN profiles \cup {nextUserId} |->
                                   IF i = nextUserId THEN AdminProfile(nextUserId)
                                   ELSE profiles[i]]
                /\ addresses' = addresses \cup {AdminAddress(nextAddressId, nextUserId)}
                /\ nextAddressId' = nextAddressId + 1
           ELSE UNCHANGED <<users, nextUserId, profiles, addresses, nextAddressId>>
        /\ IF mark /\ "1" \in {row.id : row \in db_init}
           THEN /\ init_outcome' = "IntegrityError"
                /\ UNCHANGED db_init
           ELSE IF mark
           THEN /\ db_init' = db_init \cup {[id |-> "1", initialized_at |-> now]}
                /\ init_outcome' = "ok"
           ELSE /\ init_outcome' = "ok"
                /\ UNCHANGED db_init
        /\ UNCHANGED <<database_exists, is_new_database, now, nextToken, issued, req, resp,
                       replaced, pwVars, layerVars, sessionVars, monitorVars, trackerVars>>

----------------------------------------------------------------------------
(* workers/performance_worker.py and main.lifespan: the monitor and its task *)

Min(a, b) == IF a < b THEN a ELSE b

\* if monitoring_task: (main.py, the finally block)
task_was_started_never(task) == FALSE

task_was_started(task) == task # "none"

\* start_monitoring's loop after a tick that ended in this way
position_after_failure_ends_loop(outcome) == IF outcome = "ok" THEN "sleeping" ELSE "done"

position_after(outcome) == "sleeping"

\* collect_metrics logs a failure of this kind at these counter values
logs(kind, errors, db_errors) ==
    CASE kind = "metrics" -> TRUE
      [] kind = "db" -> db_errors < MAX_LOGGED
      [] kind = "critical" -> errors < MAX_LOGGED

\* lifespan up to the yield: the cleanup task is created, the performance table
\* is looked up and the monitor's task is created; without the table the
\* RuntimeError runs the finally block, which has no monitoring task to await
LifespanStart(has_table) ==
    /\ lifespan = "created"
    /\ IF has_table
       THEN /\ _cleanup_task' = "running"
            /\ monitoring_task' = "pending"
            /\ lifespan' = "serving"
            /\ UNCHANGED is_running
       ELSE /\ is_running' = FALSE
            /\ _cleanup_task' = "cancelled"
            /\ lifespan' = "ended"
            /\ UNCHANGED monitoring_task
    /\ UNCHANGED <<cancel_requested, elapsed, _error_count, _db_error_count, logged, last_tick,
                   wrote_after_end, layerVars, sessionVars, initVars, authVars, pwVars,
                   profileVars, trackerVars>>

\* one pass of start_monitoring's loop, from the task's start or from the end
\* of its sleep to the next sleep: collect_metrics resets both counters when
\* more than 300 s have passed since the last reset, takes the sample, stores
\* the row, and counts and logs a failure
MonitorTick(outcome) ==
    LET reset == elapsed > SUPPRESS_WINDOW
        errors == IF reset THEN 0 ELSE _error_count
        db_errors == IF reset THEN 0 ELSE _db_error_count
        since == IF reset THEN 0 ELSE elapsed
        before == IF reset THEN [k \in Failures |-> 0] ELSE logged
    IN  /\ ~cancel_requested
        /\ \/ monitoring_task = "pending"
           \/ monitoring_task = "sleeping" /\ is_running
        /\ is_running' = TRUE
        /\ _error_count' = IF outcome = "critical" THEN errors + 1 ELSE errors
        /\ _db_error_count' = IF outcome = "db" THEN db_errors + 1 ELSE db_errors
        /\ logged' = IF outcome \in Failures /\ logs(outcome, errors, db_errors)
                     THEN [before EXCEPT ![outcome] = @ + 1]
                     ELSE before
        /\ last_tick' = outcome
        /\ wrote_after_end' = (wrote_after_end \/ (outcome = "ok" /\ lifespan = "ended"))
        /\ monitoring_task' = position_after(outcome)
        /\ elapsed' = Min(since + CPU_SAMPLE + INTERVAL, SUPPRESS_WINDOW + 1)
        /\ UNCHANGED <<lifespan, _cleanup_task, cancel_requested, layerVars, sessionVars,
                       initVars, authVars, pwVars, profileVars, trackerVars>>

\* the finally block of lifespan up to its await: stop_monitoring() and
\* monitoring_task.cancel(); with no task to await it runs to its end
LifespanShutdown ==
    /\ lifespan = "serving"
    /\ is_running' = FALSE
    /\ IF task_was_started(monitoring_task)
       THEN /\ cancel_requested' = (monitoring_task \in {"pending", "sleeping"})
            /\ lifespan' = "stopping"
            /\ UNCHANGED _cleanup_task
       ELSE /\ _cleanup_task' = "cancelled"
            /\ lifespan' = "ended"
            /\ UNCHANGED cancel_requested
    /\ UNCHANGED <<monitoring_task, elapsed, _error_count, _db_error_count, logged, last_tick,
                   wrote_after_end, layerVars, sessionVars, initVars, authVars, pwVars,
                   profileVars, trackerVars>>

\* the cancellation reaches the task: a task that never ran is cancelled, a
\* sleeping one leaves the loop, through except CancelledError or, when
\* wait_for returns the finished sleep instead, through the loop's test of
\* is_running
MonitorCancelled ==
    /\ cancel_requested
    /\ cancel_requested' = FALSE
    /\ monitoring_task' = IF monitoring_task = "pending" THEN "cancelled" ELSE "done"
    /\ is_running' = FALSE
    /\ UNCHANGED <<lifespan, _cleanup_task, elapsed, _error_count, _db_error_count, logged,
                   last_tick, wrote_after_end, layerVars, sessionVars, initVars, authVars,
                   pwVars, profileVars, trackerVars>>

\* await monitoring_task returns and stop_cleanup_task cancels and awaits the
\* cleanup task, whose except Exception does not catch the cancellation
LifespanEnd ==
    /\ lifespan = "stopping"
    /\ monitoring_task \in {"done", "cancelled"}
    /\ _cleanup_task' = "cancelled"
    /\ lifespan' = "ended"
    /\ UNCHANGED <<monitoring_task, cancel_requested, is_running, elapsed, _error_count,
                   _db_error_count, logged, last_tick, wrote_after_end, layerVars, sessionVars,
                   initVars, authVars, pwVars, profileVars, trackerVars>>

----------------------------------------------------------------------------
(* User management: the admin-only routes *)

\* bodies of POST /users that ask for the ADMIN role
AdminCreateBodies ==
    { [user_name |-> "bob", email |-> EmailOf("bob"), password |-> PwB,
       roles |-> <<"ADMIN">>, status |-> st] : st \in {ACTIVE, PENDING} }

\* bodies of PUT /users/{id}: a status change, role changes in either spelling,
\* a role that does not exist, an empty role list
EditBodies ==
    { [roles |-> None, status |-> Some(INACTIVE)],
      [roles |-> None, status |-> Some(ACTIVE)],
      [roles |-> Some(<<"admin">>), status |-> None],
      [roles |-> Some(<<"USER">>), status |-> None],
      [roles |-> Some(<<"root">>), status |-> None],
      [roles |-> Some(<< >>), status |-> None] }

NextUsers ==
    \/ \E n \in UserNames, p \in {PwA, PwB} : Idle /\ Login(n, p)
    \/ \E t \in issued, b \in CreateBodies \cup AdminCreateBodies :
          /\ Idle /\ CreateUser(t, b)
          /\ nextUserId' <= MaxUsers + 1 /\ nextToken' <= MaxTokens
    \/ \E t \in issued : Idle /\ GetAllUsers(t)
    \/ \E t \in issued, i \in UserIds : Idle /\ GetUser(t, i)
    \/ \E t \in issued, i \in UserIds, b \in EditBodies : Idle /\ EditUser(t, i, b)
    \/ \E t \in issued, i \in UserIds : Idle /\ DeleteUser(t, i)
    \/ Respond

SpecUsers == Init /\ [][NextUsers]_vars

----------------------------------------------------------------------------
(* Accounts that come and go: a name is used again after its user is deleted *)

NextAccounts ==
    \/ \E n \in UserNames, p \in {PwA, PwB} : Idle /\ Login(n, p)
    \/ \E t \in issued, b \in CreateBodies :
          /\ Idle /\ CreateUser(t, b)
          /\ nextUserId' <= MaxAccounts + 1 /\ nextToken' <= MaxTokens
    \/ \E t \in issued, i \in 1..MaxAccounts : Idle /\ GetUser(t, i)
    \/ \E t \in issued, i \in 1..MaxAccounts : Idle /\ DeleteUser(t, i)
    \/ Respond

SpecAccounts == Init /\ [][NextAccounts]_vars

----------------------------------------------------------------------------
(* Profiles and addresses: an admin, one further user, and their rows *)

PathUserIds == 1..(MaxUsers + 1)
AddressIds == 1..MaxAddresses

ProfileBodies == { [bio |-> None], [bio |-> Some("x")] }
AddressBodies == { [city |-> None], [city |-> Some("x")] }

\* POST /users bodies for an account that can log in at once
ActiveCreateBodies ==
    { b \in CreateBodies : b.status = ACTIVE /\ b.password = PwB }

NextProfiles ==
    \/ \E n \in UserNames : Idle /\ Login(n, IF n = "admin" THEN PwA ELSE PwB)
    \/ \E t \in issued, b \in ActiveCreateBodies :
          /\ Idle /\ CreateUser(t, b)
          /\ nextUserId' <= MaxUsers + 1 /\ nextToken' <= MaxTokens
    \/ \E t \in issued, i \in PathUserIds : Idle /\ GetUserProfile(t, i)
    \/ \E t \in issued, i \in PathUserIds, b \in ProfileBodies :
          Idle /\ UpdateUserProfile(t, i, b)
    \/ \E t \in issued, i \in PathUserIds : Idle /\ GetUserAddresses(t, i)
    \/ \E t \in issued, i \in PathUserIds, b \in AddressBodies :
          Idle /\ nextAddressId <= MaxAddresses /\ CreateUserAddress(t, i, b)
    \/ \E t \in issued, i \in PathUserIds, a \in AddressIds, b \in AddressBodies :
          Idle /\ UpdateUserAddress(t, i, a, b)
    \/ \E t \in issued, i \in PathUserIds, a \in AddressIds :
          Idle /\ DeleteUserAddress(t, i, a)
    \/ Respond

SpecProfiles == Init /\ [][NextProfiles]_vars

----------------------------------------------------------------------------
(* The rate limiter alone: one key, called over and over as time passes *)

NextRateLimit ==
    \/ CheckRateLimit("10.0.0.1", "/api/users")
    \/ clock < MaxClock /\ TickClock

SpecRateLimit == Init /\ [][NextRateLimit]_vars

----------------------------------------------------------------------------
(* The tracker's connection table: callers, the cleanup task and the clock *)

RequestIds == {"c1", "c2"}

NextTracker ==
    \/ \E id \in RequestIds, e \in Endpoints, ip \in SourceIps :
          endpoint_stats[e] < MaxOpen /\ AddConnection(id, e, ip)
    \/ \E id \in RequestIds : RemoveConnection(id)
    \/ CleanupStaleConnections
    \/ clock < MaxUptime /\ TickClock

SpecTracker == Init /\ [][NextTracker]_vars

----------------------------------------------------------------------------
(* Requests passing through the connection middleware *)

InitMiddlewareSpec ==
    /\ InitAuth
    /\ candidate = EmptyCandidate
    /\ verdict = None
    /\ InitProfiles
    /\ InitThrottled
    /\ InitApp

NextMiddleware ==
    \/ \E id \in RequestIds, path \in Paths, ip \in SourceIps : Dispatch(id, path, ip)
    \/ \E id \in RequestIds : HandlerReturns(id)
    \/ \E id \in RequestIds : HandlerRaises(id)
    \/ \E id \in RequestIds : Finalize(id)
    \/ \E id \in RequestIds : Forget(id)
    \/ CleanupStaleConnections
    \/ clock < MaxClock /\ TickClock

SpecMiddleware == InitMiddlewareSpec /\ [][NextMiddleware]_vars

----------------------------------------------------------------------------
(* Requests to one counted path while the cleanup task takes its turns *)

NextLock ==
    \/ \E id \in RequestIds, ip \in SourceIps : Dispatch(id, "/api/users", ip)
    \/ \E id \in RequestIds : HandlerReturns(id)
    \/ \E id \in RequestIds : Forget(id)
    \/ CleanupStaleConnections
    \/ clock < MaxUptime /\ TickClock

SpecLock == InitMiddlewareSpec /\ [][NextLock]_vars

----------------------------------------------------------------------------
(* The layers: main.py installs them, then requests pass through *)

NextLayers ==
    \/ Install
    \/ Arrive
    \/ EnterLayer
    \/ LayerRaises
    \/ Endpoint
    \/ LeaveLayer
    \/ served < MaxServed /\ Leave_app

SpecLayers == Init /\ [][NextLayers]_vars

----------------------------------------------------------------------------
(* Concurrent requests inside the database middleware *)

NextSessions ==
    \/ \E id \in RequestIds : nextSession < MaxSessions /\ DatabaseDispatch(id)
    \/ \E id \in RequestIds : nextSession < MaxSessions /\ GetDb(id)
    \/ \E id \in RequestIds : DatabaseDispatchEnds(id)

SpecSessions == Init /\ [][NextSessions]_vars

----------------------------------------------------------------------------
(* init_db, run after run, from a server with no database *)

InitNoDatabase ==
    /\ users = << >>
    /\ nextUserId = 1
    /\ now = 0 /\ nextToken = 0 /\ issued = {}
    /\ req = NoRequest /\ resp = Response(0, "")
    /\ replaced = [i \in UserIds |-> << >>]
    /\ candidate = EmptyCandidate /\ verdict = None
    /\ profiles = << >> /\ addresses = {} /\ nextAddressId = 1
    /\ InitTracker /\ InitLayers /\ InitSessions /\ InitLifespan
    /\ database_exists = FALSE /\ tables_exist = FALSE
    /\ is_new_database = None
    /\ db_init = {}
    /\ init_outcome = "none"
    /\ init_runs = 0

NextInitDb ==
    \/ ImportDatabase
    \/ init_runs < MaxRuns /\ InitDb
    \/ now < MaxTime /\ Tick

SpecInitDb == InitNoDatabase /\ [][NextInitDb]_vars

----------------------------------------------------------------------------
(* The lifespan of the application with its monitor *)

NextLifespan ==
    \/ \E has_table \in BOOLEAN : LifespanStart(has_table)
    \/ \E outcome \in Outcomes : MonitorTick(outcome)
    \/ LifespanShutdown
    \/ MonitorCancelled
    \/ LifespanEnd

SpecLifespan == Init /\ [][NextLifespan]_vars

\* the event loop runs a task whose sleep is over or whose cancellation is due,
\* and resumes the lifespan when the task it awaits is done
FairSpecLifespan ==
    /\ SpecLifespan
    /\ WF_vars(\E outcome \in Outcomes : MonitorTick(outcome))
    /\ WF_vars(MonitorCancelled)
    /\ WF_vars(LifespanEnd)

----------------------------------------------------------------------------
(* Password changes of one account, many times over *)

HistoryBodies ==
    { Body(Given(Some(1)), Given(Some(cur)), new, Absent) :
        cur \in {PwA, PwB, PwC, PwD}, new \in {PwA, PwB, PwC, PwD} }

NextHistory ==
    \/ \E b \in HistoryBodies :
          Idle /\ UpdatesDone(MaxUsers) < MaxHistoryUpdates /\ UpdatePassword(b)
    \/ Respond

SpecHistory == Init /\ [][NextHistory]_vars

----------------------------------------------------------------------------
(* validate_password_strength on its own *)

\* one character of each class, in a fixed order, for those chosen
ExtraChars == <<"A", "a", "1", "!", " ">>

Candidate(fill, n, extras) ==
    [fill |-> fill, n |-> n, extras |-> extras,
     text |-> Mk(fill, n, SelectSeq(ExtraChars, LAMBDA c : c \in extras))]

Candidates ==
    { Candidate(fill, n, extras) :
        fill \in Alphabet, n \in 0..MaxFill, extras \in SUBSET {"A", "a", "1", "!", " "} }

InitStrength ==
    /\ InitAuth
    /\ candidate \in Candidates
    /\ verdict = None
    /\ InitRest

\* a schema carrying the password is constructed
ValidatePassword ==
    /\ verdict = None
    /\ verdict' = Some(validate_password_strength(candidate.text))
    /\ UNCHANGED <<candidate, authVars, restVars>>

NextStrength == ValidatePassword

SpecStrength == InitStrength /\ [][NextStrength]_vars

----------------------------------------------------------------------------
(* Claims about POST /update-password, POST /password-recovery and login *)

\* the step just taken served a POST /update-password
ServedUpdate == req'.op = "update_password"

\* the rows that exist before and after the step
Kept == DOMAIN users \cap DOMAIN users'

PasswordChanged(u) == users'[u].hashed_password # users[u].hashed_password

\* the body carries a token equal to u's stored reset token, or u's id with a
\* current password that is the plaintext of u's stored hash
Authorised(body, u) ==
    \/ /\ body.token # None
       /\ users[u].reset_token = body.token
    \/ /\ body.user_id = Some(u)
       /\ body.current_password # None
       /\ users[u].hashed_password.pw = The(body.current_password)

\* C1: through POST /update-password a user's hashed_password changes only if
\* the request carried that user's stored reset token, or that user's id with a
\* current password that verifies; a request with neither a token nor a
\* current password is rejected and changes no user.
C1_PasswordChangeNeedsCredential ==
    [][ServedUpdate =>
          /\ \A u \in Kept : PasswordChanged(u) => Authorised(req'.body, u)
          /\ (req'.body.token = None /\ req'.body.current_password = None)
                => (resp'.code >= 400 /\ users' = users)]_vars

\* the reset token of the body selects user u, whose token has expired
ExpiredTokenOf(body, u) ==
    /\ TruthyText(body.token)
    /\ users[u].reset_token = body.token
    /\ users[u].reset_token_expiry # None
    /\ The(users[u].reset_token_expiry) < now

\* C2: a token-based POST /update-password for a user whose reset_token_expiry
\* is earlier than the current time fails with "Reset token has expired" and
\* leaves the user's row unchanged.
C2_ExpiredTokenRejected ==
    [][ServedUpdate =>
          \A u \in Kept :
              (ExpiredTokenOf(req'.body, u) /\ ~PasswordUpdateRequest(req'.body).raised)
                 => /\ resp'.code = 400
                    /\ resp'.detail = "Reset token has expired"
                    /\ users'[u] = users[u]]_vars

\* C3: POST /password-recovery answers an email that belongs to a user and an
\* email that belongs to nobody with the same HTTP response.
C3_RecoveryResponseHidesExistence ==
    \A e1, e2 \in RequestEmails :
        password_recovery(e1).response = password_recovery(e2).response

\* the step just taken served a POST /login
ServedLogin == req'.op = "login"

\* row u carries the user name and a hash of the password
CredentialsOf(u, username, password) ==
    /\ users[u].user_name = username
    /\ users[u].hashed_password.pw = password

\* the route reports the service's HTTPException(401, msg) as str(e)
LoginRefused(msg) ==
    /\ resp'.code = 401
    /\ resp'.detail = "401: " \o msg
    /\ resp'.access_token = None

\* C4: login issues a token and updates last_login only for an existing user
\* whose password verifies and whose status is ACTIVE; a PENDING or INACTIVE
\* user with correct credentials is refused with "Account is not active", gets
\* no token and keeps its last_login.
C4_LoginOnlyForActive ==
    [][ServedLogin =>
          LET matching == {u \in DOMAIN users :
                              CredentialsOf(u, req'.username, req'.password)}
          IN  /\ (\/ resp'.access_token # None
                  \/ \E u \in Kept : users'[u].last_login # users[u].last_login)
                    => \E u \in matching : users[u].status = ACTIVE
              /\ \A u \in Kept :
                    users'[u].last_login # users[u].last_login => u \in matching
              /\ \A u \in matching :
                    users[u].status # ACTIVE
                       => /\ LoginRefused("Account is not active")
                          /\ users' = users]_vars

\* a user that is not ACTIVE has just been refused with correct credentials
C4_Witness ==
    /\ req.op = "login"
    /\ resp.detail = "401: Account is not active"
    /\ \E u \in DOMAIN users :
          /\ CredentialsOf(u, req.username, req.password)
          /\ users[u].status \in {PENDING, INACTIVE}

\* C5: whatever the status of the account, login with an existing user name
\* and a wrong password fails with the same exception as login with a user
\* name nobody has.
C5_WrongPasswordLooksLikeNoUser ==
    \A u \in DOMAIN users : \A p \in {PwA, PwB} :
        users[u].hashed_password.pw # p
           => login(users[u].user_name, p).exc = login("nobody", p).exc

\* the step just taken was a POST /update-password that succeeded for user u
Updated(u) ==
    /\ ServedUpdate
    /\ resp'.code = 200
    /\ replaced'[u] # replaced[u]

\* C6: after a successful update_password the user's reset_token and
\* reset_token_expiry are both null, so the token that was used finds no user.
C6_TokenClearedOnUpdate ==
    [][\A u \in Kept :
          Updated(u) => /\ users'[u].reset_token = None
                        /\ users'[u].reset_token_expiry = None
                        /\ \A t \in users[u].reset_token :
                              \A v \in DOMAIN users' : users'[v].reset_token # Some(t)]_vars

\* C7: a successful update_password sets the status to ACTIVE and reports
\* status_updated = true exactly when the status was PENDING; any other status
\* is left as it was and status_updated is false.
C7_PromotionExactlyWhenPending ==
    [][\A u \in Kept :
          Updated(u) =>
             /\ resp'.status_updated <=> users[u].status = PENDING
             /\ users[u].status = PENDING => users'[u].status = ACTIVE
             /\ users[u].status # PENDING => users'[u].status = users[u].status]_vars

\* a PENDING account has just set its password and is now ACTIVE
C7_Witness ==
    /\ req.op = "update_password"
    /\ resp.code = 200
    /\ resp.status_updated
    /\ \E u \in DOMAIN users :
          /\ users[u].status = ACTIVE
          /\ Len(replaced[u]) = 1
          /\ u # 1

\* the new password of the body is the plaintext of a hash in u's history
Reused(body, u) ==
    \E i \in DOMAIN users[u].last_passwords :
        users[u].last_passwords[i].pw = body.new_password

\* the body carries a non-empty current password that is not u's password
WrongCurrent(body, u) ==
    /\ TruthyStr(body.current_password)
    /\ users[u].hashed_password.pw # The(body.current_password)

\* the request reaches AuthService.update_password for user u
Reaches(body, u) ==
    /\ ~PasswordUpdateRequest(body).raised
    /\ get_user_or_404(body.user_id, None, body.token).user = Some(u)

RefusedAsReused(u) ==
    /\ resp'.code = 400
    /\ resp'.detail = "Cannot use any of your last 5 passwords"
    /\ users'[u] = users[u]

\* C8 as stated: update_password with a new password that verifies against a
\* hash in last_passwords fails with "Cannot use any of your last 5 passwords"
\* and leaves the row unchanged.
C8_ReuseRefused_AsStated ==
    [][ServedUpdate =>
          \A u \in Kept :
              (Reaches(req'.body, u) /\ Reused(req'.body, u)) => RefusedAsReused(u)]_vars

\* C8: update_password with a new password that verifies against a hash in
\* last_passwords, and with no current password or one that verifies, fails
\* with "Cannot use any of your last 5 passwords" and leaves hashed_password,
\* last_passwords, status and the reset token unchanged.
C8_ReuseRefused ==
    [][ServedUpdate =>
          \A u \in Kept :
              (/\ Reaches(req'.body, u)
               /\ Reused(req'.body, u)
               /\ ~WrongCurrent(req'.body, u)) => RefusedAsReused(u)]_vars

\* a password of the history has just been refused
C8_Witness ==
    /\ req.op = "update_password"
    /\ resp.code = 400
    /\ resp.detail = "Cannot use any of your last 5 passwords"
    /\ \E u \in DOMAIN users :
          \E i \in DOMAIN users[u].last_passwords :
              users[u].last_passwords[i].pw = req.body.new_password

\* C9: last_passwords holds at most 5 hashes, oldest first, and they are the
\* hashes most recently replaced: entry i of the history is the replaced hash
\* that many places from the end of everything the user has ever replaced.
C9_HistoryIsLastFiveReplaced ==
    \A u \in DOMAIN users :
        LET h == users[u].last_passwords
            r == replaced[u]
            k == IF Len(r) < 5 THEN Len(r) ELSE 5
        IN  /\ Len(h) <= 5
            /\ Len(h) = k
            /\ \A i \in 1..k : h[i] = r[Len(r) - k + i]

\* a sixth update has evicted the oldest hash
C9_Witness ==
    \E u \in DOMAIN users :
        /\ Len(replaced[u]) > 5
        /\ Len(users[u].last_passwords) = 5
        /\ users[u].last_passwords[1] = replaced[u][Len(replaced[u]) - 4]

\* the character classes a candidate draws from, by how it was put together
ClassesOf(c) ==
    LET chars == c.extras \cup (IF c.n > 0 THEN {c.fill} ELSE {})
    IN  [upper |-> chars \cap {"A", "B"} # {},
         lower |-> chars \cap {"a", "b"} # {},
         digit |-> "1" \in chars,
         special |-> "!" \in chars]

\* the messages of the rules a candidate violates
ViolatedRules(c) ==
    (IF c.n + Cardinality(c.extras) < 16
        THEN {"Password must be at least 16 characters long."} ELSE {})
    \cup (IF ~ClassesOf(c).upper
        THEN {"Password must contain at least one uppercase letter."} ELSE {})
    \cup (IF ~ClassesOf(c).lower
        THEN {"Password must contain at least one lowercase letter."} ELSE {})
    \cup (IF ~ClassesOf(c).digit
        THEN {"Password must contain at least one number."} ELSE {})
    \cup (IF ~ClassesOf(c).special
        THEN {"Password must contain at least one special character."} ELSE {})

\* C10: validate_password_strength rejects a password if and only if it
\* violates at least one of the five rules, and the 422 error list has exactly
\* one entry for each violated rule.
C10_OneErrorPerViolatedRule ==
    \A v \in verdict :
        /\ v.raised <=> ViolatedRules(candidate) # {}
        /\ v.raised => v.status_code = 422
        /\ Len(v.detail) = Cardinality(ViolatedRules(candidate))
        /\ {v.detail[i].msg : i \in DOMAIN v.detail} = ViolatedRules(candidate)
        /\ \A i \in DOMAIN v.detail : v.detail[i].field = "password"

\* a 16-character password without digit and special character was rejected
\* with two errors
C10_Witness ==
    /\ verdict # None
    /\ Len(candidate.text) >= 16
    /\ The(verdict).raised
    /\ Len(The(verdict).detail) = 2

----------------------------------------------------------------------------
(* Claims about the user-management routes *)

UserOps == {"create_user", "get_all_users", "get_user", "edit_user", "delete_user"}

\* the step just taken served a user-management request of an authenticated user
ServedUserOp == req'.op \in UserOps /\ get_current_user(req'.bearer) # None

\* the row of the user the bearer token of request r names
CallerOf(r) == users[The(get_current_user(r.bearer))]

\* the stored roles include ADMIN
IsAdmin(row) == \E i \in DOMAIN row.roles : row.roles[i] = "ADMIN"

\* the body of request r passes its schema's validators
WellFormed(r) ==
    CASE r.op = "create_user" -> ~validate_password_strength(r.body.password).raised
      [] r.op = "edit_user" -> ~UserUpdateRequest(r.body).raised
      [] OTHER -> TRUE

ServedDelete == req'.op = "delete_user" /\ get_current_user(req'.bearer) # None

\* C12: DELETE /users/{id} by an admin whose own id is the path id fails with
\* 400 and deletes nothing, so whoever issues a delete request still exists
\* after it.
C12_NoSelfDelete ==
    [][ServedDelete =>
          /\ CallerOf(req').id \in DOMAIN users'
          /\ users'[CallerOf(req').id] = CallerOf(req')
          /\ (IsAdmin(CallerOf(req')) /\ req'.user_id = CallerOf(req').id)
                => (resp'.code = 400 /\ users' = users)]_vars

\* an admin has just been refused the deletion of their own account
C12_Witness ==
    /\ req.op = "delete_user"
    /\ resp.code = 400
    /\ get_current_user(req.bearer) # None
    /\ IsAdmin(CallerOf(req))
    /\ req.user_id = CallerOf(req).id

\* the step just taken was a POST /users that added row nextUserId
Created == req'.op = "create_user" /\ resp'.code = 200

\* C14: every user created through POST /users starts in status PENDING with a
\* reset_token set and a reset_token_expiry 24 hours after creation, whatever
\* status the request body supplies.
C14_CreatedPendingWithToken ==
    [][Created =>
          /\ nextUserId \in DOMAIN users'
          /\ users'[nextUserId].status = PENDING
          /\ users'[nextUserId].reset_token # None
          /\ users'[nextUserId].reset_token_expiry = Some(now + 24)]_vars

----------------------------------------------------------------------------
(* Claims about the profile and address routes *)

ProfileOps ==
    {"get_user_profile", "update_user_profile", "get_user_addresses",
     "create_user_address", "update_user_address", "delete_user_address"}

\* this step is a profile or address handler serving an authenticated caller
ServedProfileOp ==
    /\ req = NoRequest /\ req' # NoRequest
    /\ req'.op \in ProfileOps
    /\ get_current_user(req'.bearer) # None

\* C13: a profile or address operation on path user id B by an authenticated
\* user A who is neither B nor an admin is answered 403 and changes no profile
\* or address row, whether or not B or the addressed row exists; when A is B
\* the call is never answered 403.
C13_OnlyOwnerOrAdmin ==
    [][ServedProfileOp =>
          LET A == CallerOf(req')
              B == req'.user_id
          IN  /\ (A.id # B /\ ~IsAdmin(A)) =>
                    /\ resp'.code = 403
                    /\ profiles' = profiles
                    /\ addresses' = addresses
              /\ A.id = B => resp'.code # 403]_vars

----------------------------------------------------------------------------
(* Claims about the rate limiter *)

\* the timestamps a table holds for a key
Recorded(table, key) == IF key \in DOMAIN table THEN table[key].requests ELSE << >>

\* those of them that lie inside the window that ends at time t
InWindow(requests, t) == SelectSeq(requests, LAMBDA ts : t - ts < DEFAULT_WINDOW)

\* this step is a call of check_rate_limit
RateLimitChecked == rl_call' # rl_call \/ rate_limits' # rate_limits

\* C15: check_rate_limit returns true exactly when fewer than limit recorded
\* timestamps of the key lie inside the trailing window; a true result records
\* exactly one new timestamp, a false result none; so the in-window timestamps
\* of a key never outnumber the limit.
C15_AllowedIffBelowLimit ==
    /\ [][RateLimitChecked =>
             LET key == rl_call'.key
                 before == InWindow(Recorded(rate_limits, key), clock)
                 after == InWindow(Recorded(rate_limits', key), clock')
             IN  /\ rl_call'.result <=> Len(before) < rate_limit
                 /\ rl_call'.result => after = Append(before, clock)
                 /\ ~rl_call'.result => after = before]_vars
    /\ [](\A key \in DOMAIN rate_limits :
             Len(InWindow(Recorded(rate_limits, key), clock)) <= rate_limit)

\* the request after the hundredth of one window has been denied
C15_Witness ==
    /\ rl_call # NoCall /\ ~rl_call.result /\ rl_call.at = clock
    /\ rate_limit = DEFAULT_LIMIT
    /\ Len(InWindow(Recorded(rate_limits, rl_call.key), clock)) = DEFAULT_LIMIT

\* the window has gone by since the key's last allowed request
WindowElapsed(key) ==
    /\ LogOf(key).last_allowed # None
    /\ The(LogOf(key).last_allowed) + DEFAULT_WINDOW <= clock

\* C16: once a key has been denied and the window has elapsed since its last
\* allowed request, the next request for the key is allowed, however many
\* requests were denied in between.
C16_AllowedAgainAfterWindow ==
    [][RateLimitChecked =>
          LET key == rl_call'.key
          IN  (LogOf(key).denials > 0 /\ WindowElapsed(key)) => rl_call'.result]_vars

\* a key is allowed again after MaxDenials denials
C16_Witness ==
    /\ rl_call # NoCall /\ rl_call.result
    /\ rl_call.denials = MaxDenials
    /\ Recorded(rate_limits, rl_call.key) = <<clock>>

----------------------------------------------------------------------------
(* Claims about the connection table *)

\* the active connections whose endpoint is e
ActiveOn(e) == {id \in DOMAIN active_connections : active_connections[id].endpoint = e}

\* C19: in every reachable state, for every endpoint the per-endpoint counter
\* equals the number of active connections with that endpoint, also after
\* add_connection with a request_id that is already active and after a second
\* remove_connection of one id.
C19_CountersMatchActiveSet ==
    \A e \in Paths : endpoint_stats[e] = Cardinality(ActiveOn(e))

\* this step is a turn of the cleanup task
CleanupRan == reaper' # reaper

\* C20: a connection that has been in the active set for more than five minutes
\* is removed by the next turn of the cleanup task, and its endpoint counter is
\* decremented with it: after a turn no stale connection is left.
C20_StaleConnectionsReaped ==
    [][CleanupRan =>
          \A id \in stale_connections :
              /\ id \notin DOMAIN active_connections'
              /\ endpoint_stats'[active_connections[id].endpoint]
                    < endpoint_stats[active_connections[id].endpoint]]_vars

----------------------------------------------------------------------------
(* Claims about the connection middleware *)

\* the requests to an excluded path the middleware is serving or has served
ExcludedRequests == {id \in DOMAIN conn : conn[id].path \in EXCLUDE_PATHS}

\* a key is at its limit: the next request for it would be answered 429
AtLimit(key) == Len(InWindow(Recorded(rate_limits, key), clock)) >= rate_limit

\* C17: a request to an excluded path (/api/health, /api/rate-limit-info) is
\* never answered 429, never counted against a rate-limit key and never
\* registered in the active-connection set, however many there are and whatever
\* the tracker's state.
C17_ExcludedPathsBypassTracker ==
    /\ \A id \in ExcludedRequests :
          /\ conn[id].status # 429
          /\ conn[id].pc \in {"call_next", "done"}
          /\ id \notin DOMAIN active_connections
    /\ \A key \in DOMAIN rate_limits : key[3] \notin EXCLUDE_PATHS
    /\ \A id \in DOMAIN active_connections :
          active_connections[id].endpoint \notin EXCLUDE_PATHS
    /\ \A e \in EXCLUDE_PATHS : endpoint_stats[e] = 0
    /\ \A ip \in SourceIps : ip_stats[ip] \cap EXCLUDE_PATHS = {}

\* requests to both excluded paths have been answered 200 while the same
\* address is at its limit on a counted path
C17_Witness ==
    /\ \A e \in EXCLUDE_PATHS :
          \E id \in ExcludedRequests :
              conn[id].path = e /\ conn[id].pc = "done" /\ conn[id].status = 200
    /\ \E key \in DOMAIN rate_limits : AtLimit(key)
    /\ ~rl_call.result /\ rl_call.at = clock

\* the request has left the middleware, with a response or an exception
Finished(id) == conn[id].pc \in {"done", "suspended"}

\* C18: every connection the middleware registers is removed when its request
\* finishes, whether the handler returns or raises; once all requests have
\* finished the active-connection set is empty.
C18_RemovedWhenFinished ==
    /\ \A id \in DOMAIN conn : Finished(id) => id \notin DOMAIN active_connections
    /\ (\A id \in DOMAIN conn : Finished(id)) => DOMAIN active_connections = {}

----------------------------------------------------------------------------
(* Claims about the tracker's lock *)

\* the cleanup task holds the lock and is waiting for that same lock
HolderWaitsForItself == lock = "cleanup task" /\ reaper.pc = "waiting for the lock"

\* the requests that are waiting for the lock, before or after their handler
WaitingRequests ==
    {id \in DOMAIN conn : conn[id].pc \in {"waiting for the lock", "waiting to remove"}}

\* C21: the tracker lock is never held forever, also when the cleanup task finds
\* stale connections: no request waits for the lock while the task that holds
\* it is itself waiting for it, a wait that cannot end.
C21_NoRequestBlockedForever ==
    WaitingRequests # {} => ~HolderWaitsForItself

----------------------------------------------------------------------------
(* Claims about the layers *)

\* the order of the layers on the way in, outermost first
StatedOrder ==
    <<"CORSMiddleware", "ErrorHandlingMiddleware", "DatabaseMiddleware",
      "EnhancedConnectionMiddleware", "record_performance_metrics">>

\* C22: every request enters the layers in the order CORS, error handling,
\* database session, connection tracking, performance recording (CORS
\* outermost) and leaves them in the reverse order, so an exception raised in
\* the session, connection-tracking or performance layer passes through the
\* error-handling layer.
C22_LayersInStatedOrder ==
    /\ hop.entered = SubSeq(StatedOrder, 1, Len(hop.entered))
    /\ (hop.dir = "done" /\ hop.caught) => hop.exc = None
    /\ (hop.dir = "done" /\ hop.exc # None) => The(hop.exc) \notin Raisers

----------------------------------------------------------------------------
(* Claims about database sessions *)

\* C23: while a request is being handled, the session the database middleware
\* bound for it is the one opened for that request and is still open, whatever
\* other requests do meanwhile.
C23_BoundSessionIsOwnAndOpen ==
    \A id \in DOMAIN bound :
        /\ app_state_db = Some(bound[id].db)
        /\ The(app_state_db) \in sessions

----------------------------------------------------------------------------
(* Claims about init_db *)

\* the users named INITIAL_USER
Admins == {i \in DOMAIN users : users[i].user_name = "admin"}

\* this step is a run of init_db
InitDbRan == init_runs' = init_runs + 1

\* C24: after any number of runs of init_db the db_init table holds at most one
\* row and at most one user is named INITIAL_USER; a run that finds the database
\* initialized or the admin present creates no user, inserts no second row and
\* completes without error.
C24_InitDbIdempotent ==
    /\ [](Cardinality(db_init) <= 1 /\ Cardinality(Admins) <= 1)
    /\ [][(InitDbRan /\ (db_init # {} \/ Admins # {})) =>
             /\ users' = users
             /\ Cardinality(db_init') <= 1
             /\ init_outcome' = "ok"]_vars

----------------------------------------------------------------------------
(* Claims about the lifespan and the performance monitor *)

TaskOver == monitoring_task \in {"none", "done", "cancelled"}

\* C25: when the lifespan has ended, after serving or after a failed startup,
\* the monitor's task, if one was started, and the cleanup task are over, and
\* the monitor stores no row afterwards.
C25_TasksOverAtLifespanEnd ==
    lifespan = "ended" =>
        /\ TaskOver
        /\ _cleanup_task = "cancelled"
        /\ ~is_running
        /\ ~wrote_after_end

C25_Witness ==
    /\ lifespan = "ended"
    /\ monitoring_task = "done"
    /\ last_tick # "none"

Monitoring == monitoring_task \in {"pending", "sleeping"} /\ lifespan = "serving"

\* C26: a monitor that is never stopped or cancelled attempts ticks again and
\* again, however its ticks end; in particular every failed tick is followed
\* by another tick.
C26_FailedTickDoesNotEndLoop ==
    /\ [][last_tick' \in Failures /\ Monitoring => monitoring_task' = "sleeping"]_vars
    /\ (<>[]Monitoring) => []<><<\E outcome \in Outcomes : MonitorTick(outcome)>>_vars

C26_Witness ==
    /\ Monitoring
    /\ last_tick \in Failures
    /\ _db_error_count > 0
    /\ _error_count > 0

\* C27: between two resets of the counters the monitor logs at most 3 failed
\* ticks of one kind, whether the sample or the write failed.
C27_AtMostThreeLoggedPerWindow ==
    \A kind \in {"metrics", "db"} : logged[kind] <= MAX_LOGGED

----------------------------------------------------------------------------
(* Claims about reset tokens *)

\* C28: in every reachable state each user's reset_token and
\* reset_token_expiry are both set or both null.
C28_TokenAndExpiryTogether ==
    \A u \in DOMAIN users :
        (users[u].reset_token = None) <=> (users[u].reset_token_expiry = None)

C28_Witness ==
    \E u \in DOMAIN users :
        /\ users[u].reset_token # None
        /\ users[u].reset_token_expiry # None
        /\ Len(replaced[u]) > 0

\* the users a reset token selects
SelectedBy(t) == {u \in DOMAIN users : users[u].reset_token = Some(t)}

\* C29: a reset token selects at most one user; a token newly stored for a
\* user was never issued before; and once a user's token is replaced by a later
\* one, the earlier token finds no user.
C29_EarlierTokenFindsNoUser ==
    /\ [](\A t \in TokenValues : Cardinality(SelectedBy(t)) <= 1)
    /\ [][\A u \in DOMAIN users' : \A t \in users'[u].reset_token :
             (u \notin DOMAIN users \/ users[u].reset_token # Some(t)) =>
                 /\ t = FreshToken
                 /\ nextToken' = nextToken + 1]_vars
    /\ [][\A u \in DOMAIN users \cap DOMAIN users' : \A t \in users[u].reset_token :
             users'[u].reset_token # Some(t) => get_user_by_reset_token(t)' = None]_vars

C29_Witness ==
    /\ DOMAIN users = {1}
    /\ users[1].reset_token = Some("t2")
    /\ req.op = "update_password"
    /\ req.body.token = Some("t1")
    /\ resp.code = 404

----------------------------------------------------------------------------
(* Claims about bearer tokens *)

\* C30: a bearer token whose user has been deleted authenticates nobody, also
\* after another user was created under the same user_name.
C30_TokenDiesWithUser ==
    \A token \in issued :
        token.user_id \notin DOMAIN users => get_current_user(token) = None

====
